---------------------------- MODULE Spec2Model ----------------------------
(***************************************************************************)
(* Model of the Saarathi-AI backend core:                                  *)
(*   - services/eligibility_service.py  check_eligibility                  *)
(*   - ingestion/merge.py               upsert_schemes_from_source         *)
(*                                                                         *)
(* Strings are sequences of one-character strings, so that str.lower(),    *)
(* str.strip() and str.split("/") are computed character by character.     *)
(*                                                                         *)
(*   - routers/eligibility.py           check_user_eligibility             *)
(*   - utils/rate_limiter.py            check_rate_limit                   *)
(*   - routers/admin_ai.py              ai_extract_eligibility_for_scheme  *)
(*                                                                         *)
(* SpecEligibility evaluates every scheme built from the scheme pools for  *)
(* every profile of Profiles; SpecResync runs one batch repeatedly against *)
(* a starting catalog, under either autoflush setting of the Session.      *)
(***************************************************************************)
EXTENDS Integers, Sequences, FiniteSets, TLC

VARIABLES
    profile,      \* the UserProfileCreate handed to check_eligibility
    scheme,       \* the Scheme row handed to check_eligibility
    verdict,      \* what check_eligibility returned (None before the call)
    pc,           \* "ready" before the call of check_eligibility, "done" after
                  \* it returned, "raised" after an exception; "sync" while syncing
    catalog,      \* the committed rows of table schemes, in id order
    autoflush,    \* whether the Session flushes pending rows before a query
    clock,        \* the reading datetime.utcnow() gives
    request,      \* the batch and the source tag a sync is run with; in AI
                  \* extraction the scheme and the AI result of the last call
    runs,         \* the calls of upsert_schemes_from_source made so far
    sessions,     \* the Sessions of the sync requests running at the same time
    checks,       \* the POST /eligibility/check requests being served
    requests_per_ip,  \* rate_limiter._requests_per_ip: the timestamps kept per IP
    calls,        \* per IP, the check_rate_limit calls made: clock reading and returned value
    original      \* the scheme before any of its conditions was relaxed, and its verdict

vars == <<profile, scheme, verdict, pc, catalog, autoflush, clock, request, runs,
          sessions, checks, requests_per_ip, calls, original>>

\* Python's None in a string-typed field (a string is a sequence of characters,
\* which this one-element sequence is not)
None == <<"<None>">>

\* Python's None in an Optional[int] field (ages and incomes are >= 0)
NoneInt == -1

----------------------------------------------------------------------------
(* Strings *)

UpperChars == <<"A","B","C","D","E","F","G","H","I","J","K","L","M",
                "N","O","P","Q","R","S","T","U","V","W","X","Y","Z">>

LowerChars == <<"a","b","c","d","e","f","g","h","i","j","k","l","m",
                "n","o","p","q","r","s","t","u","v","w","x","y","z">>

Whitespace == {" ", "\t", "\n", "\r"}

\* one character of str.lower()
LowerChar(c) ==
    IF \E i \in 1..Len(UpperChars) : UpperChars[i] = c
    THEN LowerChars[CHOOSE i \in 1..Len(UpperChars) : UpperChars[i] = c]
    ELSE c

\* str.lower()
Lower(s) == [i \in 1..Len(s) |-> LowerChar(s[i])]

RECURSIVE LStrip(_)
LStrip(s) ==
    IF s # <<>> /\ Head(s) \in Whitespace THEN LStrip(Tail(s)) ELSE s

RECURSIVE RStrip(_)
RStrip(s) ==
    IF s # <<>> /\ s[Len(s)] \in Whitespace
    THEN RStrip(SubSeq(s, 1, Len(s) - 1))
    ELSE s

\* str.strip()
Strip(s) == RStrip(LStrip(s))

\* str.split(sep) for a one-character separator: the list of the pieces
\* between separators, empty pieces included
RECURSIVE SplitFrom(_, _, _)
SplitFrom(s, sep, cur) ==
    IF s = <<>> THEN <<cur>>
    ELSE IF Head(s) = sep
         THEN <<cur>> \o SplitFrom(Tail(s), sep, <<>>)
         ELSE SplitFrom(Tail(s), sep, Append(cur, Head(s)))

Split(s, sep) == SplitFrom(s, sep, <<>>)

DigitChars == <<"0","1","2","3","4","5","6","7","8","9">>

\* str(n) for n >= 0, as an f-string renders {n}
RECURSIVE Digits(_)
Digits(n) ==
    IF n < 10 THEN <<DigitChars[n + 1]>>
    ELSE Append(Digits(n \div 10), DigitChars[(n % 10) + 1])

\* the three digits of a group after the first, zero padded
Pad3(n) ==
    <<DigitChars[(n \div 100) + 1], DigitChars[((n \div 10) % 10) + 1],
      DigitChars[(n % 10) + 1]>>

\* format(n, ",") for n >= 0, as an f-string renders {n:,}
RECURSIVE Thousands(_)
Thousands(n) ==
    IF n < 1000 THEN Digits(n)
    ELSE Thousands(n \div 1000) \o <<",">> \o Pad3(n % 1000)

----------------------------------------------------------------------------
(* check_eligibility *)

\* The local state of check_eligibility: the eligible flag, the reasons list,
\* and whether an exception left the function.
StartAcc == [eligible |-> TRUE, reasons |-> <<>>, raised |-> FALSE]

\* Fail with the assignment eligible = False left out
Fail_KeepsEligible(acc, text) ==
    [acc EXCEPT !.reasons = Append(acc.reasons, text)]

\* eligible = False; reasons.append(text)
Fail(acc, text) ==
    [acc EXCEPT !.eligible = FALSE, !.reasons = Append(acc.reasons, text)]

\* an exception (AttributeError of None.lower(), TypeError of None < n)
Raise(acc) == [acc EXCEPT !.raised = TRUE]

\* CheckState comparing the scheme state with "central" as it is stored
CheckState_CaseSensitive(acc, p, s) ==
    IF acc.raised THEN acc
    ELSE IF s.state = None \/ p.state = None THEN Raise(acc)
    ELSE IF s.state # <<"c","e","n","t","r","a","l">> /\ Lower(s.state) # Lower(p.state)
         THEN Fail(acc, <<"This scheme is only for ">> \o s.state
                          \o <<" residents.">>)
         ELSE acc

\* CheckState with profile.state in the message instead of scheme.state
CheckState_NamesProfileState(acc, p, s) ==
    IF acc.raised THEN acc
    ELSE IF s.state = None \/ p.state = None THEN Raise(acc)
    ELSE IF Lower(s.state) # <<"c","e","n","t","r","a","l">>
            /\ Lower(s.state) # Lower(p.state)
         THEN Fail(acc, <<"This scheme is only for ">> \o p.state
                          \o <<" residents.">>)
         ELSE acc

\* lines 24-27: the state must match, Central schemes apply to all states
CheckState(acc, p, s) ==
    IF acc.raised THEN acc
    ELSE IF s.state = None \/ p.state = None THEN Raise(acc)
    ELSE IF Lower(s.state) # <<"c","e","n","t","r","a","l">>
            /\ Lower(s.state) # Lower(p.state)
         THEN Fail(acc, <<"This scheme is only for ">> \o s.state
                          \o <<" residents.">>)
         ELSE acc

\* CheckMinAge with <= for <: the minimum age itself fails
CheckMinAge_Exclusive(acc, p, s) ==
    IF acc.raised THEN acc
    ELSE IF s.min_age # NoneInt
         THEN IF p.age = NoneInt THEN Raise(acc)
              ELSE IF p.age <= s.min_age
                   THEN Fail(acc, <<"Age must be at least ">>
                                    \o Digits(s.min_age) \o <<" years.">>)
                   ELSE acc
         ELSE acc

\* lines 30-32
CheckMinAge(acc, p, s) ==
    IF acc.raised THEN acc
    ELSE IF s.min_age # NoneInt
         THEN IF p.age = NoneInt THEN Raise(acc)
              ELSE IF p.age < s.min_age
                   THEN Fail(acc, <<"Age must be at least ">>
                                    \o Digits(s.min_age) \o <<" years.">>)
                   ELSE acc
         ELSE acc

\* lines 34-36
CheckMaxAge(acc, p, s) ==
    IF acc.raised THEN acc
    ELSE IF s.max_age # NoneInt
         THEN IF p.age = NoneInt THEN Raise(acc)
              ELSE IF p.age > s.max_age
                   THEN Fail(acc, <<"Age must not exceed ">>
                                    \o Digits(s.max_age) \o <<" years.">>)
                   ELSE acc
         ELSE acc

\* CheckMinIncome skipped once an earlier check has failed
CheckMinIncome_ShortCircuit(acc, p, s) ==
    IF acc.raised \/ ~acc.eligible THEN acc
    ELSE IF s.min_income # NoneInt
         THEN IF p.annual_income = NoneInt
              THEN Fail(acc, <<"Income information is required for this scheme.">>)
              ELSE IF p.annual_income < s.min_income
                   THEN Fail(acc, <<"Annual income must be at least Rs">>
                                    \o Thousands(s.min_income) \o <<".">>)
                   ELSE acc
         ELSE acc

\* lines 39-45 (the rupee sign of the message is written Rs)
CheckMinIncome(acc, p, s) ==
    IF acc.raised THEN acc
    ELSE IF s.min_income # NoneInt
         THEN IF p.annual_income = NoneInt
              THEN Fail(acc, <<"Income information is required for this scheme.">>)
              ELSE IF p.annual_income < s.min_income
                   THEN Fail(acc, <<"Annual income must be at least Rs">>
                                    \o Thousands(s.min_income) \o <<".">>)
                   ELSE acc
         ELSE acc

\* CheckMaxIncome with >= for >
CheckMaxIncome_Exclusive(acc, p, s) ==
    IF acc.raised THEN acc
    ELSE IF s.max_income # NoneInt
         THEN IF p.annual_income = NoneInt
              THEN Fail(acc, <<"Income information is required for this scheme.">>)
              ELSE IF p.annual_income >= s.max_income
                   THEN Fail(acc, <<"Annual income must not exceed Rs">>
                                    \o Thousands(s.max_income) \o <<".">>)
                   ELSE acc
         ELSE acc

\* lines 47-53
CheckMaxIncome(acc, p, s) ==
    IF acc.raised THEN acc
    ELSE IF s.max_income # NoneInt
         THEN IF p.annual_income = NoneInt
              THEN Fail(acc, <<"Income information is required for this scheme.">>)
              ELSE IF p.annual_income > s.max_income
                   THEN Fail(acc, <<"Annual income must not exceed Rs">>
                                    \o Thousands(s.max_income) \o <<".">>)
                   ELSE acc
         ELSE acc

\* CheckOccupation without the test profile.occupation is None: None.lower()
\* raises AttributeError
CheckOccupation_Unguarded(acc, p, s) ==
    IF acc.raised THEN acc
    ELSE IF s.occupation # None
         THEN IF p.occupation = None THEN Raise(acc)
              ELSE IF Lower(s.occupation) # Lower(p.occupation)
                   THEN Fail(acc, <<"This scheme is only for ">>
                                    \o s.occupation \o <<"s.">>)
                   ELSE acc
         ELSE acc

\* lines 56-62
CheckOccupation(acc, p, s) ==
    IF acc.raised THEN acc
    ELSE IF s.occupation # None
         THEN IF p.occupation = None
              THEN Fail(acc, <<"This scheme requires occupation to be specified as '">>
                               \o s.occupation \o <<"'.">>)
              ELSE IF Lower(s.occupation) # Lower(p.occupation)
                   THEN Fail(acc, <<"This scheme is only for ">>
                                    \o s.occupation \o <<"s.">>)
                   ELSE acc
         ELSE acc

\* CheckGender comparing the scheme gender with "any" as it is stored
CheckGender_AnyCaseSensitive(acc, p, s) ==
    IF acc.raised THEN acc
    ELSE IF s.gender # None /\ s.gender # <<"a","n","y">>
         THEN IF p.gender = None
              THEN Fail(acc, <<"This scheme requires gender to be specified.">>)
              ELSE IF Lower(s.gender) # Lower(p.gender)
                   THEN Fail(acc, <<"This scheme is only for ">>
                                    \o s.gender \o <<" applicants.">>)
                   ELSE acc
         ELSE acc

\* lines 65-71
CheckGender(acc, p, s) ==
    IF acc.raised THEN acc
    ELSE IF s.gender # None /\ Lower(s.gender) # <<"a","n","y">>
         THEN IF p.gender = None
              THEN Fail(acc, <<"This scheme requires gender to be specified.">>)
              ELSE IF Lower(s.gender) # Lower(p.gender)
                   THEN Fail(acc, <<"This scheme is only for ">>
                                    \o s.gender \o <<" applicants.">>)
                   ELSE acc
         ELSE acc

\* allowed_castes without strip()
allowed_castes_Untrimmed(caste) ==
    LET parts == Split(caste, "/")
    IN  [i \in 1..Len(parts) |-> Lower(parts[i])]

\* line 80: [c.strip().lower() for c in scheme.caste.split("/")]
allowed_castes(caste) ==
    LET parts == Split(caste, "/")
    IN  [i \in 1..Len(parts) |-> Lower(Strip(parts[i]))]

\* x in list
InList(x, list) == \E i \in 1..Len(list) : list[i] = x

\* the caste check indented under the gender check: it runs only for a
\* scheme that sets a gender other than "any"
CheckCaste_UnderGender(acc, p, s) ==
    IF acc.raised THEN acc
    ELSE IF s.gender # None /\ Lower(s.gender) # <<"a","n","y">>
            /\ s.caste # None /\ Lower(s.caste) # <<"a","n","y">>
         THEN IF p.caste = None
              THEN Fail(acc, <<"This scheme requires caste category to be specified.">>)
              ELSE IF ~InList(Lower(p.caste), allowed_castes(s.caste))
                   THEN Fail(acc, <<"This scheme is only for ">>
                                    \o s.caste \o <<" category.">>)
                   ELSE acc
         ELSE acc

\* lines 74-83
CheckCaste(acc, p, s) ==
    IF acc.raised THEN acc
    ELSE IF s.caste # None /\ Lower(s.caste) # <<"a","n","y">>
         THEN IF p.caste = None
              THEN Fail(acc, <<"This scheme requires caste category to be specified.">>)
              ELSE IF ~InList(Lower(p.caste), allowed_castes(s.caste))
                   THEN Fail(acc, <<"This scheme is only for ">>
                                    \o s.caste \o <<" category.">>)
                   ELSE acc
         ELSE acc

\* CheckDisability comparing scheme.disability with "yes" as it is stored
\* when it picks the message
CheckDisability_YesCaseSensitive(acc, p, s) ==
    IF acc.raised THEN acc
    ELSE IF s.disability # None /\ Lower(s.disability) # <<"a","n","y">>
         THEN IF p.disability = None
              THEN Fail(acc, <<"This scheme requires disability status to be specified.">>)
              ELSE IF Lower(s.disability) # Lower(p.disability)
                   THEN IF s.disability = <<"y","e","s">>
                        THEN Fail(acc, <<"This scheme is only for persons with disabilities.">>)
                        ELSE Fail(acc, <<"This scheme is not available for persons with disabilities.">>)
                   ELSE acc
         ELSE acc

\* CheckDisability with `and profile.disability` in the outer test: a
\* profile without disability status passes
CheckDisability_AbsentPasses(acc, p, s) ==
    IF acc.raised THEN acc
    ELSE IF s.disability # None /\ Lower(s.disability) # <<"a","n","y">>
            /\ p.disability # None
         THEN IF Lower(s.disability) # Lower(p.disability)
              THEN IF Lower(s.disability) = <<"y","e","s">>
                   THEN Fail(acc, <<"This scheme is only for persons with disabilities.">>)
                   ELSE Fail(acc, <<"This scheme is not available for persons with disabilities.">>)
              ELSE acc
         ELSE acc

\* lines 86-96
CheckDisability(acc, p, s) ==
    IF acc.raised THEN acc
    ELSE IF s.disability # None /\ Lower(s.disability) # <<"a","n","y">>
         THEN IF p.disability = None
              THEN Fail(acc, <<"This scheme requires disability status to be specified.">>)
              ELSE IF Lower(s.disability) # Lower(p.disability)
                   THEN IF Lower(s.disability) = <<"y","e","s">>
                        THEN Fail(acc, <<"This scheme is only for persons with disabilities.">>)
                        ELSE Fail(acc, <<"This scheme is not available for persons with disabilities.">>)
                   ELSE acc
         ELSE acc

\* check_eligibility with the gender check moved before the occupation check
check_eligibility_Reordered(p, s) ==
    LET a1 == CheckState(StartAcc, p, s)
        a2 == CheckMinAge(a1, p, s)
        a3 == CheckMaxAge(a2, p, s)
        a4 == CheckMinIncome(a3, p, s)
        a5 == CheckMaxIncome(a4, p, s)
        a6 == CheckGender(a5, p, s)
        a7 == CheckOccupation(a6, p, s)
        a8 == CheckCaste(a7, p, s)
        a9 == CheckDisability(a8, p, s)
    IN  [raised   |-> a9.raised,
         eligible |-> a9.eligible,
         reasons  |-> a9.reasons,
         score    |-> IF a9.eligible THEN 1 ELSE 0]

\* check_eligibility with the score set before the checks and not after
\* them: it is 1 whatever the checks find
check_eligibility_ScoreAlwaysOne(p, s) ==
    LET a1 == CheckState(StartAcc, p, s)
        a2 == CheckMinAge(a1, p, s)
        a3 == CheckMaxAge(a2, p, s)
        a4 == CheckMinIncome(a3, p, s)
        a5 == CheckMaxIncome(a4, p, s)
        a6 == CheckOccupation(a5, p, s)
        a7 == CheckGender(a6, p, s)
        a8 == CheckCaste(a7, p, s)
        a9 == CheckDisability(a8, p, s)
    IN  [raised   |-> a9.raised,
         eligible |-> a9.eligible,
         reasons  |-> a9.reasons,
         score    |-> IF StartAcc.eligible THEN 1 ELSE 0]

\* lines 21-105: the nine checks in the order of the code, then the score
\* (1.0 and 0.0 are written 1 and 0) and the returned dict
check_eligibility(p, s) ==
    LET a1 == CheckState(StartAcc, p, s)
        a2 == CheckMinAge(a1, p, s)
        a3 == CheckMaxAge(a2, p, s)
        a4 == CheckMinIncome(a3, p, s)
        a5 == CheckMaxIncome(a4, p, s)
        a6 == CheckOccupation(a5, p, s)
        a7 == CheckGender(a6, p, s)
        a8 == CheckCaste(a7, p, s)
        a9 == CheckDisability(a8, p, s)
    IN  [raised   |-> a9.raised,
         eligible |-> a9.eligible,
         reasons  |-> a9.reasons,
         score    |-> IF a9.eligible THEN 1 ELSE 0]

----------------------------------------------------------------------------
(* The inputs of check_eligibility *)

Karnataka == <<"K","a","r","n","a","t","a","k","a">>
Maharashtra == <<"M","a","h","a","r","a","s","h","t","r","a">>

\* the (state, age, annual_income) part of the profiles tried; the first is
\* the profile of the documented scenario
ProfileResidence ==
    { <<Karnataka, 20, 300000>>,
      <<Karnataka, 17, NoneInt>>,
      <<Karnataka, 18, 299999>>,
      <<Karnataka, 17, 800001>>,
      <<<<"m","a","h","a","r","a","s","h","t","r","a">>, 35, 800000>>,
      <<<<"M","A","H","A","R","A","S","H","T","R","A">>, 36, 800001>> }

\* the (occupation, gender, caste, disability) part of the profiles tried
ProfilePerson ==
    { <<<<"s","t","u","d","e","n","t">>, None, None, None>>,
      <<None, None, None, None>>,
      <<<<"S","T","U","D","E","N","T">>, <<"f","e","m","a","l","e">>, <<"s","t">>, <<"y","e","s">>>>,
      <<<<"F","a","r","m","e","r">>, <<"M","a","l","e">>, <<"g","e","n","e","r","a","l">>, <<"N","o">>>>,
      <<<<"s","t","u","d","e","n","t">>, <<"F","e","m","a","l","e">>, <<"o","b","c">>, <<"n","o">>>>,
      <<None, <<"m","a","l","e">>, <<"S","T">>, None>> }

\* UserProfileCreate (schemas.py): state and age required, the rest optional
Profiles ==
    { [state |-> r[1], age |-> r[2], annual_income |-> r[3],
       occupation |-> q[1], gender |-> q[2], caste |-> q[3], disability |-> q[4]] :
      r \in ProfileResidence, q \in ProfilePerson }

SchemeStates == { <<"C","e","n","t","r","a","l">>, <<"C","E","N","T","R","A","L">>, Maharashtra }
SchemeMinAges == { NoneInt, 18 }
SchemeMaxAges == { NoneInt, 35 }
SchemeMinIncomes == { NoneInt, 300000 }
SchemeMaxIncomes == { NoneInt, 800000 }
SchemeOccupations == { None, <<"s","t","u","d","e","n","t">> }
SchemeGenders == { None, <<"A","n","y">>, <<"F","e","m","a","l","e">> }
SchemeCastes == { None, <<"A","N","Y">>, <<"S","C","/","S","T","/","O","B","C">>, <<"s","c"," ","/"," ","S","t"," ">> }
SchemeDisabilities == { None, <<"a","n","y">>, <<"Y","e","s">>, <<"n","o">> }

\* the columns of a Scheme row (models.py) that check_eligibility reads
Schemes ==
    [state : SchemeStates, min_age : SchemeMinAges, max_age : SchemeMaxAges,
     min_income : SchemeMinIncomes, max_income : SchemeMaxIncomes,
     occupation : SchemeOccupations, gender : SchemeGenders,
     caste : SchemeCastes, disability : SchemeDisabilities]

----------------------------------------------------------------------------
(* The evaluator as a state machine: an input pair, then the call *)

InitEligibility ==
    /\ profile \in Profiles
    /\ scheme \in Schemes
    /\ verdict = None
    /\ pc = "ready"
    /\ catalog = <<>>
    /\ autoflush = FALSE
    /\ clock = 0
    /\ request = [items |-> <<>>, source |-> None]
    /\ runs = <<>>
    /\ sessions = <<>>
    /\ checks = <<>>
    /\ requests_per_ip = <<>>
    /\ calls = <<>>
    /\ original = None

\* One call of check_eligibility on the input pair: it returns its dict, or
\* an exception leaves it and nothing is returned.
Evaluate ==
    /\ pc = "ready"
    /\ LET r == check_eligibility(profile, scheme)
       IN  IF r.raised
           THEN /\ pc' = "raised"
                /\ verdict' = verdict
           ELSE /\ pc' = "done"
                /\ verdict' = [eligible |-> r.eligible, reasons |-> r.reasons,
                               score |-> r.score]
    /\ UNCHANGED <<profile, scheme, catalog, autoflush, clock, request, runs,
                   sessions, checks,
                   requests_per_ip, calls, original>>

NextEligibility == Evaluate

SpecEligibility == InitEligibility /\ [][NextEligibility]_vars

----------------------------------------------------------------------------
(* upsert_schemes_from_source *)

\* dict.get(key, default)
Get(item, key, default) == IF key \in DOMAIN item THEN item[key] ELSE default

\* the columns of Scheme typed Integer (models.py)
IntColumns == {"min_age", "max_age", "min_income", "max_income"}

\* None as column key holds it
NoneOf(key) == IF key \in IntColumns THEN NoneInt ELSE None

\* dict.get(key)
GetOrNone(item, key) == Get(item, key, NoneOf(key))

\* the test written as `if sid is None`: the empty string is kept as an id
Falsy_OnlyNone(sid) == sid = None

\* "not sid": a missing, null or empty source_scheme_id
Falsy(sid) == sid = None \/ sid = <<>>

\* the columns declared nullable=False (models.py lines 9, 10, 13)
NotNullColumns == {"name", "short_description", "state"}

\* a row the database accepts
RowAccepted(row) == \A c \in NotNullColumns : row[c] # None

\* The Session during one call: rows are the rows the database holds for this
\* transaction (changes to loaded rows included), pending the rows added and
\* not yet flushed, failed whether an exception has left the function.
StartSession(committed) ==
    [rows |-> committed, pending |-> <<>>, inserted |-> 0, updated |-> 0,
     failed |-> FALSE]

\* flush: the pending rows are written in order and get the next ids; a row
\* that breaks a NOT NULL constraint raises IntegrityError
Flush(sess) ==
    LET n == Len(sess.rows)
        written == sess.rows \o
            [i \in 1..Len(sess.pending) |->
                [sess.pending[i] EXCEPT !.id = n + i]]
    IN  IF \A i \in 1..Len(written) : RowAccepted(written[i])
        THEN [sess EXCEPT !.rows = written, !.pending = <<>>]
        ELSE [sess EXCEPT !.failed = TRUE]

\* Query.first() with the filter on source_scheme_id only: the row of another
\* source with the same external id is found
FindExisting_AnySource(rows, source, sid) ==
    LET hits == { i \in 1..Len(rows) : rows[i].source_scheme_id = sid }
    IN  IF hits = {} THEN 0 ELSE CHOOSE i \in hits : \A j \in hits : i <= j

\* Query.first() with the filter written against the wrong column: the
\* external id is compared with the source tag
FindExisting_WrongColumn(rows, source, sid) ==
    LET hits == { i \in 1..Len(rows) :
                    rows[i].source = source /\ rows[i].source_scheme_id = source }
    IN  IF hits = {} THEN 0 ELSE CHOOSE i \in hits : \A j \in hits : i <= j

\* lines 27-32: the first row with this source and source_scheme_id (the row
\* of lowest id), 0 when there is none
FindExisting(rows, source, sid) ==
    LET hits == { i \in 1..Len(rows) :
                    rows[i].source = source /\ rows[i].source_scheme_id = sid }
    IN  IF hits = {} THEN 0 ELSE CHOOSE i \in hits : \A j \in hits : i <= j

\* the update written with item.get(key) and no default: a key the record
\* does not carry sets the column to NULL
UpdateRow_NullsAbsent(row, item, now) ==
    [row EXCEPT
        !.name = GetOrNone(item, "name"),
        !.state = GetOrNone(item, "state"),
        !.category = GetOrNone(item, "category"),
        !.short_description = GetOrNone(item, "short_description"),
        !.full_description = GetOrNone(item, "full_description"),
        !.min_age = GetOrNone(item, "min_age"),
        !.max_age = GetOrNone(item, "max_age"),
        !.min_income = GetOrNone(item, "min_income"),
        !.max_income = GetOrNone(item, "max_income"),
        !.occupation = GetOrNone(item, "occupation"),
        !.official_link = GetOrNone(item, "official_link"),
        !.application_process = GetOrNone(item, "application_process"),
        !.last_synced_at = now]

\* lines 36-48: the update of a found row
UpdateRow(row, item, now) ==
    [row EXCEPT
        !.name = Get(item, "name", row.name),
        !.state = Get(item, "state", row.state),
        !.category = Get(item, "category", row.category),
        !.short_description = Get(item, "short_description", row.short_description),
        !.full_description = Get(item, "full_description", row.full_description),
        !.min_age = Get(item, "min_age", row.min_age),
        !.max_age = Get(item, "max_age", row.max_age),
        !.min_income = Get(item, "min_income", row.min_income),
        !.max_income = Get(item, "max_income", row.max_income),
        !.occupation = Get(item, "occupation", row.occupation),
        !.official_link = Get(item, "official_link", row.official_link),
        !.application_process = Get(item, "application_process", row.application_process),
        !.last_synced_at = now]

\* lines 52-68: the new row of a record not found; id is given at the flush,
\* the columns the constructor does not name are NULL
NewRow(item, source, sid, now) ==
    [id |-> 0,
     source |-> source,
     source_scheme_id |-> sid,
     name |-> item["name"],
     state |-> GetOrNone(item, "state"),
     category |-> GetOrNone(item, "category"),
     short_description |-> GetOrNone(item, "short_description"),
     full_description |-> GetOrNone(item, "full_description"),
     min_age |-> GetOrNone(item, "min_age"),
     max_age |-> GetOrNone(item, "max_age"),
     min_income |-> GetOrNone(item, "min_income"),
     max_income |-> GetOrNone(item, "max_income"),
     occupation |-> GetOrNone(item, "occupation"),
     official_link |-> GetOrNone(item, "official_link"),
     application_process |-> GetOrNone(item, "application_process"),
     gender |-> None,
     caste |-> None,
     disability |-> None,
     last_synced_at |-> now]

\* the loop body with `inserted += 1` after the if/else instead of inside the
\* else: a record that updates a row is counted as inserted too
MergeItem_InsertedOutsideElse(sess, item, source, now, flushes) ==
    LET sid == GetOrNone(item, "source_scheme_id")
    IN  IF sess.failed \/ Falsy(sid) THEN sess
        ELSE LET s1 == IF flushes THEN Flush(sess) ELSE sess
                 at == FindExisting(s1.rows, source, sid)
             IN  IF s1.failed THEN s1
                 ELSE IF at # 0
                 THEN [s1 EXCEPT !.rows[at] = UpdateRow(s1.rows[at], item, now),
                                 !.updated = s1.updated + 1,
                                 !.inserted = s1.inserted + 1]
                 ELSE IF "name" \notin DOMAIN item
                 THEN [s1 EXCEPT !.failed = TRUE]
                 ELSE [s1 EXCEPT !.pending =
                                     Append(s1.pending, NewRow(item, source, sid, now)),
                                 !.inserted = s1.inserted + 1]

\* lines 23-70: the body of the loop for one record. A query flushes first
\* when the Session autoflushes; item["name"] raises KeyError when the key is
\* missing.
MergeItem(sess, item, source, now, flushes) ==
    LET sid == GetOrNone(item, "source_scheme_id")
    IN  IF sess.failed \/ Falsy(sid) THEN sess
        ELSE LET s1 == IF flushes THEN Flush(sess) ELSE sess
                 at == FindExisting(s1.rows, source, sid)
             IN  IF s1.failed THEN s1
                 ELSE IF at # 0
                 THEN [s1 EXCEPT !.rows[at] = UpdateRow(s1.rows[at], item, now),
                                 !.updated = s1.updated + 1]
                 ELSE IF "name" \notin DOMAIN item
                 THEN [s1 EXCEPT !.failed = TRUE]
                 ELSE [s1 EXCEPT !.pending =
                                     Append(s1.pending, NewRow(item, source, sid, now)),
                                 !.inserted = s1.inserted + 1]

\* line 22: for item in items
RECURSIVE MergeItems(_, _, _, _, _)
MergeItems(sess, items, source, now, flushes) ==
    IF items = <<>> THEN sess
    ELSE MergeItems(MergeItem(sess, Head(items), source, now, flushes),
                    Tail(items), source, now, flushes)

\* the call written as a mirror of the source: the rows of the source whose
\* external id the batch does not carry are deleted before the commit
upsert_schemes_from_source_Mirror(committed, items, source, now, flushes) ==
    LET looped == MergeItems(StartSession(committed), items, source, now, flushes)
        done   == IF looped.failed THEN looped ELSE Flush(looped)
        ids    == { GetOrNone(items[n], "source_scheme_id") : n \in 1..Len(items) }
        Kept(row) == row.source # source \/ row.source_scheme_id \in ids
    IN  IF done.failed
        THEN [outcome |-> "error", inserted |-> 0, updated |-> 0,
              before |-> committed, after |-> committed, at |-> now]
        ELSE [outcome |-> "ok", inserted |-> done.inserted,
              updated |-> done.updated,
              before |-> committed, after |-> SelectSeq(done.rows, Kept), at |-> now]

\* the call with the commit inside the loop: what the records before a
\* failing one wrote stays in the committed rows
upsert_schemes_from_source_PartialCommit(committed, items, source, now, flushes) ==
    LET looped == MergeItems(StartSession(committed), items, source, now, flushes)
        done   == IF looped.failed THEN looped ELSE Flush(looped)
    IN  IF done.failed
        THEN [outcome |-> "error", inserted |-> 0, updated |-> 0,
              before |-> committed, after |-> done.rows, at |-> now]
        ELSE [outcome |-> "ok", inserted |-> done.inserted,
              updated |-> done.updated,
              before |-> committed, after |-> done.rows, at |-> now]

\* lines 19-73: the whole call; db.commit() flushes and commits. The outcome
\* is the returned dict and the committed rows, or a failure that leaves the
\* committed rows as they were (the transaction is rolled back when the
\* caller closes the Session).
upsert_schemes_from_source(committed, items, source, now, flushes) ==
    LET looped == MergeItems(StartSession(committed), items, source, now, flushes)
        done   == IF looped.failed THEN looped ELSE Flush(looped)
    IN  IF done.failed
        THEN [outcome |-> "error", inserted |-> 0, updated |-> 0,
              before |-> committed, after |-> committed, at |-> now]
        ELSE [outcome |-> "ok", inserted |-> done.inserted,
              updated |-> done.updated,
              before |-> committed, after |-> done.rows, at |-> now]

----------------------------------------------------------------------------
(* The records and batches a sync is run with *)

MaxBatch == 2
MaxRuns == 2
MaxClock == 2

MyScheme == <<"m","y","s","c","h","e","m","e">>
DataGov == <<"d","a","t","a","_","g","o","v">>

IdA == <<"K","A","1">>
IdB == <<"K","A","2">>

\* a full record, as the mock files of the ingestor hold them
RecordA ==
    [source_scheme_id |-> IdA, name |-> <<"V","i","d","y","a">>, state |-> Karnataka,
     category |-> <<"s","t","u","d","e","n","t">>, short_description |-> <<"d","1">>,
     min_age |-> 18, max_age |-> 35, max_income |-> 800000,
     occupation |-> <<"s","t","u","d","e","n","t">>]

\* the same external id with another name and fewer keys
RecordA2 ==
    [source_scheme_id |-> IdA, name |-> <<"V","i","d","y","a","2">>, state |-> Karnataka,
     short_description |-> <<"d","1">>, category |-> None]

RecordB ==
    [source_scheme_id |-> IdB, name |-> <<"K","r","i","s","h","i">>, state |-> Maharashtra,
     short_description |-> <<"d","2">>, occupation |-> <<"f","a","r","m","e","r">>, min_income |-> NoneInt]

\* records without a usable source_scheme_id
RecordNoId == [name |-> <<"A","n","o","n">>, state |-> Karnataka, short_description |-> <<"d","3">>]
RecordEmptyId ==
    [source_scheme_id |-> <<>>, name |-> <<"A","n","o","n">>, state |-> Karnataka,
     short_description |-> <<"d","3">>]

\* a record with an id and without a name
RecordNoName ==
    [source_scheme_id |-> IdB, state |-> Karnataka, short_description |-> <<"d","4">>]

\* a record with an id and a name and without state
RecordNoState ==
    [source_scheme_id |-> IdA, name |-> <<"V","i","d","y","a">>, short_description |-> <<"d","1">>]

Records ==
    { RecordA, RecordA2, RecordB, RecordNoId, RecordEmptyId, RecordNoName,
      RecordNoState }

\* the batches: every sequence of at most MaxBatch records
Batches == UNION { [1..n -> Records] : n \in 0..MaxBatch }

Sources == { MyScheme, DataGov }

\* a row of seed data: it has no source
SeedRow ==
    [id |-> 1, source |-> None, source_scheme_id |-> None,
     name |-> <<"S","e","e","d">>, state |-> <<"C","e","n","t","r","a","l">>, category |-> None,
     short_description |-> <<"d","0">>, full_description |-> None,
     min_age |-> NoneInt, max_age |-> 60, min_income |-> NoneInt,
     max_income |-> NoneInt, occupation |-> None, official_link |-> None,
     application_process |-> None, gender |-> <<"F","e","m","a","l","e">>, caste |-> <<"S","C","/","S","T">>,
     disability |-> <<"A","n","y">>, last_synced_at |-> NoneInt]

\* the catalogs a sync starts from: empty, seeded, and seeded with RecordA
\* already ingested from MyScheme
StartCatalogs ==
    { <<>>,
      <<SeedRow>>,
      upsert_schemes_from_source(<<SeedRow>>, <<RecordA>>, MyScheme, 0, FALSE).after }

----------------------------------------------------------------------------
(* Syncing one batch again and again *)

\* whether the Session flushes before each query: SessionLocal is configured
\* in db.py, so both settings are considered
SessionAutoflush == BOOLEAN

InitResync ==
    /\ profile = None
    /\ scheme = None
    /\ verdict = None
    /\ pc = "sync"
    /\ catalog \in StartCatalogs
    /\ autoflush \in SessionAutoflush
    /\ clock = 0
    /\ request \in [items : Batches, source : Sources]
    /\ runs = <<>>
    /\ sessions = <<>>
    /\ checks = <<>>
    /\ requests_per_ip = <<>>
    /\ calls = <<>>
    /\ original = None

\* One call of upsert_schemes_from_source(db, request.items, request.source):
\* datetime.utcnow() reads the clock.
Merge ==
    /\ pc = "sync"
    /\ Len(runs) < MaxRuns
    /\ LET r == upsert_schemes_from_source(catalog, request.items,
                                           request.source, clock, autoflush)
       IN  /\ catalog' = r.after
           /\ runs' = Append(runs, r)
    /\ UNCHANGED <<profile, scheme, verdict, pc, autoflush, clock, request,
                   sessions, checks,
                   requests_per_ip, calls, original>>

\* time passes
Tick ==
    /\ pc = "sync"
    /\ clock < MaxClock
    /\ clock' = clock + 1
    /\ UNCHANGED <<profile, scheme, verdict, pc, catalog, autoflush, request, runs,
                   sessions, checks,
                   requests_per_ip, calls, original>>

NextResync == Merge \/ Tick

SpecResync == InitResync /\ [][NextResync]_vars

----------------------------------------------------------------------------
(* Syncing one batch after another into the same catalog *)

MaxSyncs == 2

\* a record whose name is the empty string
RecordEmptyName ==
    [source_scheme_id |-> IdB, name |-> <<>>, state |-> Karnataka,
     short_description |-> <<"d","5">>]

\* a record whose state is the empty string
RecordEmptyState ==
    [source_scheme_id |-> IdA, name |-> <<"V","i","d","y","a">>, state |-> <<>>,
     short_description |-> <<"d","1">>]

\* the batches the syncs are run with: one record, one external id twice, a
\* record without id before a good one, a record without name after a good
\* one, and records whose name or state is the empty string
CatalogBatches ==
    { <<RecordA>>, <<RecordA2>>, <<RecordB>>, <<RecordA, RecordA2>>,
      <<RecordNoId, RecordB>>, <<RecordA, RecordNoName>>, <<RecordB, RecordEmptyId>>,
      <<RecordEmptyName>>, <<RecordEmptyState>> }

InitCatalog ==
    /\ profile = None
    /\ scheme = None
    /\ verdict = None
    /\ pc = "catalog"
    /\ catalog \in { <<>>, <<SeedRow>> }
    /\ autoflush \in SessionAutoflush
    /\ clock = 0
    /\ request = [items |-> <<>>, source |-> None]
    /\ runs = <<>>
    /\ sessions = <<>>
    /\ checks = <<>>
    /\ requests_per_ip = <<>>
    /\ calls = <<>>
    /\ original = None

\* One sync request: upsert_schemes_from_source(db, items, source) on the
\* catalog as the syncs before left it; the next sync runs at a later time.
Sync ==
    /\ pc = "catalog"
    /\ Len(runs) < MaxSyncs
    /\ \E items \in CatalogBatches, source \in Sources :
          LET r == upsert_schemes_from_source(catalog, items, source, clock, autoflush)
          IN  /\ request' = [items |-> items, source |-> source]
              /\ catalog' = r.after
              /\ runs' = Append(runs, r)
    /\ clock' = clock + 1
    /\ UNCHANGED <<profile, scheme, verdict, pc, autoflush, sessions, checks,
                   requests_per_ip, calls, original>>

NextCatalog == Sync

SpecCatalog == InitCatalog /\ [][NextCatalog]_vars

----------------------------------------------------------------------------
(* Two sync requests at the same time *)

\* the batches of the two requests; no batch carries an external id twice
ConcurrentBatches ==
    { <<RecordA>>, <<RecordA2>>, <<RecordB, RecordA>>, <<RecordA2, RecordB>>,
      <<RecordA, RecordNoName>> }

\* sync_myscheme runs in a worker thread per request
Requests == {1, 2}

\* the Session of a request that has begun: the batch, the index of the next
\* record, the rows it has loaded (as loaded, and as it has changed them), its
\* new rows (flushed inside its transaction, and not yet flushed) and the
\* counts
NewSession(items, source, committed) ==
    [items |-> items, source |-> source, next |-> 1,
     loaded |-> <<>>, dirty |-> <<>>, flushed |-> <<>>, pending |-> <<>>,
     inserted |-> 0, updated |-> 0, state |-> "running", start |-> committed]

\* what the queries of a Session see: the committed rows, the rows the Session
\* holds as it has changed them, and the rows it has flushed
View(committed, s) ==
    [i \in 1..Len(committed) |->
        IF i \in DOMAIN s.dirty THEN s.dirty[i] ELSE committed[i]] \o s.flushed

\* the UPDATE of a flush sets the columns whose value differs from the one
\* loaded
WriteChanged(stored, was, new) ==
    [c \in DOMAIN stored |-> IF new[c] # was[c] THEN new[c] ELSE stored[c]]

\* the committed rows after the Session's commit: its changed rows written,
\* its new rows inserted with the next ids
Committed(committed, s) ==
    LET n == Len(committed)
        added == s.flushed \o s.pending
    IN  [i \in 1..n |->
            IF i \in DOMAIN s.dirty
            THEN WriteChanged(committed[i], s.loaded[i], s.dirty[i])
            ELSE committed[i]] \o
        [j \in 1..Len(added) |-> [added[j] EXCEPT !.id = n + j]]

InitConcurrent ==
    /\ profile = None
    /\ scheme = None
    /\ verdict = None
    /\ pc = "requests"
    /\ catalog \in StartCatalogs
    /\ autoflush \in SessionAutoflush
    /\ clock = 0
    /\ request = [items |-> <<>>, source |-> MyScheme]
    /\ runs = <<>>
    /\ \E batch \in [Requests -> ConcurrentBatches] :
          sessions = [p \in Requests |-> NewSession(batch[p], MyScheme, catalog)]
    /\ checks = <<>>
    /\ requests_per_ip = <<>>
    /\ calls = <<>>
    /\ original = None

\* merge.py lines 22-70 for the next record of request p: the query reads the
\* committed rows of this moment
MergeNext(p) ==
    /\ pc = "requests"
    /\ sessions[p].state = "running"
    /\ sessions[p].next <= Len(sessions[p].items)
    /\ LET s == sessions[p]
           item == s.items[s.next]
           n == Len(catalog)
           before == [rows |-> View(catalog, s), pending |-> s.pending,
                      inserted |-> s.inserted, updated |-> s.updated,
                      failed |-> FALSE]
           after == MergeItem(before, item, s.source, clock, autoflush)
           found == IF Falsy(GetOrNone(item, "source_scheme_id")) \/ after.failed
                    THEN {}
                    ELSE { i \in 1..n :
                             i = FindExisting(after.rows, s.source,
                                              item["source_scheme_id"]) }
       IN  sessions' = [sessions EXCEPT ![p] =
               IF after.failed
               THEN [s EXCEPT !.state = "failed"]
               ELSE [s EXCEPT
                       !.next = s.next + 1,
                       !.loaded = [i \in DOMAIN s.loaded \cup found |->
                                     IF i \in DOMAIN s.loaded THEN s.loaded[i]
                                     ELSE catalog[i]],
                       !.dirty = [i \in DOMAIN s.dirty \cup found |->
                                     after.rows[i]],
                       !.flushed = SubSeq(after.rows, n + 1, Len(after.rows)),
                       !.pending = after.pending,
                       !.inserted = after.inserted,
                       !.updated = after.updated]]
    /\ UNCHANGED <<profile, scheme, verdict, pc, catalog, autoflush, clock,
                   request, runs, checks,
                   requests_per_ip, calls, original>>

\* merge.py line 72 for request p: the flush and the commit
Commit(p) ==
    /\ pc = "requests"
    /\ sessions[p].state = "running"
    /\ sessions[p].next > Len(sessions[p].items)
    /\ LET s == sessions[p]
           rows == Committed(catalog, s)
       IN  IF \A i \in 1..Len(rows) : RowAccepted(rows[i])
           THEN /\ catalog' = rows
                /\ sessions' = [sessions EXCEPT ![p].state = "committed"]
           ELSE /\ catalog' = catalog
                /\ sessions' = [sessions EXCEPT ![p].state = "failed"]
    /\ UNCHANGED <<profile, scheme, verdict, pc, autoflush, clock, request, runs, checks,
                   requests_per_ip, calls, original>>

NextConcurrent == \E p \in Requests : MergeNext(p) \/ Commit(p)

SpecConcurrent == InitConcurrent /\ [][NextConcurrent]_vars

----------------------------------------------------------------------------
(* POST /eligibility/check *)

MaxSchemes == 2

\* a row that asks nothing of a profile
OpenRow ==
    [SeedRow EXCEPT !.max_age = NoneInt, !.gender = None, !.caste = None,
                    !.disability = None]

\* the rows the catalogs are made of: Central and central, Karnataka with and
\* without conditions, karnataka, Maharashtra
SchemeRows ==
    { OpenRow,
      [OpenRow EXCEPT !.state = <<"c","e","n","t","r","a","l">>],
      [OpenRow EXCEPT !.state = Karnataka, !.min_age = 18,
                      !.occupation = <<"s","t","u","d","e","n","t">>],
      [OpenRow EXCEPT !.state = Karnataka, !.gender = <<"F","e","m","a","l","e">>],
      [OpenRow EXCEPT !.state = <<"k","a","r","n","a","t","a","k","a">>],
      [OpenRow EXCEPT !.state = Maharashtra] }

\* the catalogs: every sequence of at most MaxSchemes rows, ids in order
EndpointCatalogs ==
    UNION { { [i \in 1..n |-> [rows[i] EXCEPT !.id = i]] :
                rows \in [1..n -> SchemeRows] } : n \in 0..MaxSchemes }

\* the profiles posted: the one of test_eligibility.py, a minor who wrote the
\* state in lower case, and a resident of Maharashtra
EndpointProfiles ==
    { [state |-> Karnataka, age |-> 20, annual_income |-> 300000,
       occupation |-> <<"s","t","u","d","e","n","t">>, gender |-> <<"M","a","l","e">>, caste |-> None,
       disability |-> None],
      [state |-> <<"k","a","r","n","a","t","a","k","a">>, age |-> 17, annual_income |-> NoneInt,
       occupation |-> None, gender |-> <<"f","e","m","a","l","e">>, caste |-> None,
       disability |-> None],
      [state |-> Maharashtra, age |-> 35, annual_income |-> NoneInt,
       occupation |-> <<"F","a","r","m","e","r">>, gender |-> None, caste |-> None,
       disability |-> None] }

\* lines 21-23: the rows whose state is the profile's state or "Central", as
\* the = of the database compares them
Candidates(rows, p) ==
    LET Matches(row) == row.state = p.state \/ row.state = <<"C","e","n","t","r","a","l">>
    IN  SelectSeq(rows, Matches)

\* lines 33-46: the dict of a scheme in the response
scheme_dict(s) ==
    [id |-> s.id, name |-> s.name, short_description |-> s.short_description,
     full_description |-> s.full_description, category |-> s.category,
     state |-> s.state, min_age |-> s.min_age, max_age |-> s.max_age,
     max_income |-> s.max_income, occupation |-> s.occupation,
     official_link |-> s.official_link,
     application_process |-> s.application_process]

\* check_eligibility with the state normalised in place before the
\* comparison: profile.state and scheme.state are overwritten in lower case
Arguments_Normalised(p, s) ==
    [profile |-> [p EXCEPT !.state = Lower(p.state)],
     scheme  |-> [s EXCEPT !.state = Lower(s.state)]]

\* eligibility_service.py lines 21-105: the profile and the scheme as the call
\* leaves them; no line assigns to an attribute of either
Arguments(p, s) == [profile |-> p, scheme |-> s]

\* a request that has been received: nothing loaded, nothing evaluated
NewCheck(p) ==
    [profile |-> p, step |-> "received", schemes |-> <<>>, next |-> 1,
     evaluated |-> <<>>, eligible_schemes |-> <<>>, ineligible_schemes |-> <<>>]

InitEndpoint ==
    /\ profile = None
    /\ scheme = None
    /\ verdict = None
    /\ pc = "serving"
    /\ catalog \in EndpointCatalogs
    /\ autoflush = FALSE
    /\ clock = 0
    /\ request = [items |-> <<>>, source |-> None]
    /\ runs = <<>>
    /\ sessions = <<>>
    /\ checks \in [Requests -> { NewCheck(p) : p \in EndpointProfiles }]
    /\ requests_per_ip = <<>>
    /\ calls = <<>>
    /\ original = None

\* lines 21-26 for request r: the query and the two empty lists
Load(r) ==
    /\ pc = "serving"
    /\ checks[r].step = "received"
    /\ checks' = [checks EXCEPT ![r].step = "loop",
                                ![r].schemes = Candidates(catalog, checks[r].profile)]
    /\ UNCHANGED <<profile, scheme, verdict, pc, catalog, autoflush, clock,
                   request, runs, sessions, requests_per_ip, calls, original>>

\* the loop body with the append to ineligible_schemes after the if and not in
\* its else: an eligible scheme is put on both lists
CheckNext_AppendsBoth(r) ==
    /\ pc = "serving"
    /\ checks[r].step = "loop"
    /\ checks[r].next <= Len(checks[r].schemes)
    /\ LET c == checks[r]
           s == c.schemes[c.next]
           eligibility_result == check_eligibility(c.profile, s)
           left == Arguments(c.profile, s)
       IN  checks' = [checks EXCEPT ![r] =
               IF eligibility_result.raised
               THEN [c EXCEPT !.step = "raised"]
               ELSE [c EXCEPT
                       !.profile = left.profile,
                       !.schemes[c.next] = left.scheme,
                       !.next = c.next + 1,
                       !.evaluated = Append(c.evaluated,
                                       [id |-> s.id, result |-> eligibility_result]),
                       !.eligible_schemes =
                           IF eligibility_result.eligible
                           THEN Append(c.eligible_schemes, scheme_dict(left.scheme))
                           ELSE c.eligible_schemes,
                       !.ineligible_schemes =
                           Append(c.ineligible_schemes, scheme_dict(left.scheme))]]
    /\ UNCHANGED <<profile, scheme, verdict, pc, catalog, autoflush, clock,
                   request, runs, sessions, requests_per_ip, calls, original>>

\* lines 28-51 for the next scheme of request r: the call and the append
CheckNext(r) ==
    /\ pc = "serving"
    /\ checks[r].step = "loop"
    /\ checks[r].next <= Len(checks[r].schemes)
    /\ LET c == checks[r]
           s == c.schemes[c.next]
           eligibility_result == check_eligibility(c.profile, s)
           left == Arguments(c.profile, s)
       IN  checks' = [checks EXCEPT ![r] =
               IF eligibility_result.raised
               THEN [c EXCEPT !.step = "raised"]
               ELSE [c EXCEPT
                       !.profile = left.profile,
                       !.schemes[c.next] = left.scheme,
                       !.next = c.next + 1,
                       !.evaluated = Append(c.evaluated,
                                       [id |-> s.id, result |-> eligibility_result]),
                       !.eligible_schemes =
                           IF eligibility_result.eligible
                           THEN Append(c.eligible_schemes, scheme_dict(left.scheme))
                           ELSE c.eligible_schemes,
                       !.ineligible_schemes =
                           IF eligibility_result.eligible
                           THEN c.ineligible_schemes
                           ELSE Append(c.ineligible_schemes, scheme_dict(left.scheme))]]
    /\ UNCHANGED <<profile, scheme, verdict, pc, catalog, autoflush, clock,
                   request, runs, sessions, requests_per_ip, calls, original>>

\* lines 53-57 for request r: the response
Return(r) ==
    /\ pc = "serving"
    /\ checks[r].step = "loop"
    /\ checks[r].next > Len(checks[r].schemes)
    /\ checks' = [checks EXCEPT ![r].step = "returned"]
    /\ UNCHANGED <<profile, scheme, verdict, pc, catalog, autoflush, clock,
                   request, runs, sessions, requests_per_ip, calls, original>>

NextEndpoint == \E r \in Requests : Load(r) \/ CheckNext(r) \/ Return(r)

SpecEndpoint == InitEndpoint /\ [][NextEndpoint]_vars

----------------------------------------------------------------------------
(* Relaxing the conditions of a scheme *)

\* the conditions of a scheme that can be relaxed, with their predicates
Relaxable ==
    { <<"min_age", 2>>, <<"max_age", 3>>, <<"min_income", 4>>,
      <<"max_income", 5>>, <<"occupation", 6>>, <<"gender", 7>>,
      <<"caste", 8>>, <<"disability", 9>> }

\* the scheme with the condition unset
Unset(s, field) == [s EXCEPT ![field] = NoneOf(field)]

\* the scheme with the condition set to "any"
SetAny(s, field) == [s EXCEPT ![field] = <<"a","n","y">>]

\* the schemes one relaxation of condition c away from s
Relaxed(s, c) ==
    { Unset(s, c[1]) } \cup (IF c[2] \in 7..9 THEN { SetAny(s, c[1]) } ELSE {})

\* profiles: three residences with each of the persons of ProfilePerson
RelaxProfiles ==
    { [state |-> r[1], age |-> r[2], annual_income |-> r[3],
       occupation |-> q[1], gender |-> q[2], caste |-> q[3], disability |-> q[4]] :
      r \in { <<Karnataka, 20, 300000>>, <<Karnataka, 17, NoneInt>>,
              <<<<"M","A","H","A","R","A","S","H","T","R","A">>, 36, 800001>> },
      q \in ProfilePerson }

\* schemes that set every condition
RelaxSchemes ==
    [state : { <<"C","e","n","t","r","a","l">>, Maharashtra }, min_age : {18}, max_age : {35},
     min_income : {300000}, max_income : {800000},
     occupation : { <<"s","t","u","d","e","n","t">> }, gender : { <<"F","e","m","a","l","e">> },
     caste : { <<"S","C","/","S","T","/","O","B","C">> }, disability : { <<"Y","e","s">> }]

InitRelax ==
    /\ profile \in RelaxProfiles
    /\ scheme \in RelaxSchemes
    /\ verdict = None
    /\ pc = "given"
    /\ catalog = <<>>
    /\ autoflush = FALSE
    /\ clock = 0
    /\ request = [items |-> <<>>, source |-> None]
    /\ runs = <<>>
    /\ sessions = <<>>
    /\ checks = <<>>
    /\ requests_per_ip = <<>>
    /\ calls = <<>>
    /\ original = None

\* check_eligibility(profile, scheme) for the scheme as given
EvaluateGiven ==
    /\ pc = "given"
    /\ LET r == check_eligibility(profile, scheme)
       IN  IF r.raised
           THEN /\ pc' = "raised"
                /\ UNCHANGED <<verdict, original>>
           ELSE /\ pc' = "relaxing"
                /\ verdict' = [eligible |-> r.eligible, reasons |-> r.reasons,
                               score |-> r.score]
                /\ original' = [scheme |-> scheme, verdict |-> verdict']
    /\ UNCHANGED <<profile, scheme, catalog, autoflush, clock, request, runs,
                   sessions, checks, requests_per_ip, calls>>

\* one condition of the scheme is relaxed and check_eligibility is called for
\* the relaxed scheme
Relax ==
    /\ pc = "relaxing"
    /\ \E c \in Relaxable : \E relaxed \in Relaxed(scheme, c) :
          /\ relaxed # scheme
          /\ scheme' = relaxed
          /\ LET r == check_eligibility(profile, relaxed)
             IN  IF r.raised
                 THEN pc' = "raised" /\ verdict' = verdict
                 ELSE /\ pc' = "relaxing"
                      /\ verdict' = [eligible |-> r.eligible, reasons |-> r.reasons,
                                     score |-> r.score]
    /\ UNCHANGED <<profile, catalog, autoflush, clock, request, runs, sessions,
                   checks, requests_per_ip, calls, original>>

NextRelax == EvaluateGiven \/ Relax

SpecRelax == InitRelax /\ [][NextRelax]_vars

----------------------------------------------------------------------------
(* utils/rate_limiter.py *)

WINDOW_SECONDS == 60
MAX_REQUESTS == 20

MaxCalls == 22
MaxOtherCalls == 1
LastReading == 60

\* the client that sends many requests, and another client
FloodingIp == <<"1","0",".","0",".","0",".","1">>
OtherIp == <<"1","0",".","0",".","0",".","2">>
Ips == { FloodingIp, OtherIp }

\* the seconds that pass between two readings of time.time()
ClockSteps == {30, 59}

\* _requests_per_ip.get(ip, [])
Timestamps(requests, ip) == IF ip \in DOMAIN requests THEN requests[ip] ELSE <<>>

\* the dict with the list stored under the key
Stored(requests, ip, arr) ==
    [k \in DOMAIN requests \cup {ip} |-> IF k = ip THEN arr ELSE requests[k]]

\* check_rate_limit with > for >= : a full list still admits one request
check_rate_limit_OffByOne(requests, ip, now) ==
    LET Recent(t) == now - t < WINDOW_SECONDS
        arr == SelectSeq(Timestamps(requests, ip), Recent)
    IN  IF Len(arr) > MAX_REQUESTS
        THEN [requests |-> Stored(requests, ip, arr), returned |-> FALSE]
        ELSE [requests |-> Stored(requests, ip, Append(arr, now)), returned |-> TRUE]

\* lines 27-39: the timestamps within the window are kept; a full list is
\* stored as it is and False returned, otherwise now is appended and True
\* returned
check_rate_limit(requests, ip, now) ==
    LET Recent(t) == now - t < WINDOW_SECONDS
        arr == SelectSeq(Timestamps(requests, ip), Recent)
    IN  IF Len(arr) >= MAX_REQUESTS
        THEN [requests |-> Stored(requests, ip, arr), returned |-> FALSE]
        ELSE [requests |-> Stored(requests, ip, Append(arr, now)), returned |-> TRUE]

InitRateLimit ==
    /\ profile = None
    /\ scheme = None
    /\ verdict = None
    /\ pc = "limiting"
    /\ catalog = <<>>
    /\ autoflush = FALSE
    /\ clock = 0
    /\ request = [items |-> <<>>, source |-> None]
    /\ runs = <<>>
    /\ sessions = <<>>
    /\ checks = <<>>
    /\ requests_per_ip = <<>>
    /\ calls = [ip \in Ips |-> <<>>]
    /\ original = None

\* assistant.py lines 47-48: a request of the client arrives and
\* check_rate_limit(ip) is called
Chat(ip) ==
    /\ pc = "limiting"
    /\ Len(calls[ip]) < (IF ip = FloodingIp THEN MaxCalls ELSE MaxOtherCalls)
    /\ LET r == check_rate_limit(requests_per_ip, ip, clock)
       IN  /\ requests_per_ip' = r.requests
           /\ calls' = [calls EXCEPT ![ip] =
                           Append(@, [at |-> clock, returned |-> r.returned])]
    /\ UNCHANGED <<profile, scheme, verdict, pc, catalog, autoflush, clock,
                   request, runs, sessions, checks, original>>

\* time passes
Advance ==
    /\ pc = "limiting"
    /\ \E d \in ClockSteps :
          /\ clock + d <= LastReading
          /\ clock' = clock + d
    /\ UNCHANGED <<profile, scheme, verdict, pc, catalog, autoflush, request,
                   runs, sessions, checks, requests_per_ip, calls, original>>

NextRateLimit == (\E ip \in Ips : Chat(ip)) \/ Advance

SpecRateLimit == InitRateLimit /\ [][NextRateLimit]_vars

----------------------------------------------------------------------------
\* AI extraction of eligibility fields (routers/admin_ai.py)

MaxLimit == 2
LimitCap == 50

\* the JSON values json.loads puts in the dict the AI client returns
JsonNull == [type |-> "NoneType"]
JsonInt(n) == [type |-> "int", value |-> n]
JsonStr(s) == [type |-> "str", value |-> s]
JsonList == [type |-> "list"]

NumericFields == {"min_age", "max_age", "min_income", "max_income"}

DigitValue(c) == CHOOSE d \in 0..9 : DigitChars[d + 1] = c

IsDecimal(s) ==
    /\ s # <<>>
    /\ \A i \in 1..Len(s) : \E d \in 0..9 : DigitChars[d + 1] = s[i]

RECURSIVE Decimal(_)
Decimal(s) ==
    IF s = <<>> THEN 0
    ELSE 10 * Decimal(SubSeq(s, 1, Len(s) - 1)) + DigitValue(s[Len(s)])

\* safe_int: int(v) unless v is None; None when int(v) raises (a string that
\* is no decimal literal after stripping, a list)
safe_int(v) ==
    CASE v.type = "NoneType" -> NoneInt
      [] v.type = "int" -> v.value
      [] v.type = "str" ->
            IF IsDecimal(Strip(v.value)) THEN Decimal(Strip(v.value)) ELSE NoneInt
      [] OTHER -> NoneInt

\* result.get(key)
ResultGet(result, key) == IF key \in DOMAIN result THEN result[key] ELSE JsonNull

\* lines 75-86 and 175-186: the assignments made to the scheme
ApplyResult(row, result) ==
    LET occ == ResultGet(result, "occupation")
    IN  [f \in DOMAIN row |->
            IF f \in NumericFields /\ ResultGet(result, f).type # "NoneType"
            THEN safe_int(ResultGet(result, f))
            ELSE IF /\ f = "occupation"
                    /\ occ.type = "str"
                    /\ Strip(occ.value) # <<>>
                 THEN Lower(Strip(occ.value))
                 ELSE row[f]]

\* scheme.full_description or scheme.short_description
DescriptionText(row) ==
    IF Falsy(row.full_description) THEN row.short_description
    ELSE row.full_description

ExtractRows ==
    { [short_description |-> <<"d","1">>, full_description |-> <<"f","u","l","l">>,
       min_age |-> 18, max_age |-> NoneInt, min_income |-> NoneInt,
       max_income |-> 250000, occupation |-> None],
      [short_description |-> <<"d","2">>, full_description |-> None,
       min_age |-> NoneInt, max_age |-> NoneInt, min_income |-> NoneInt,
       max_income |-> 300000, occupation |-> <<"f","a","r","m","e","r">>],
      [short_description |-> <<>>, full_description |-> None,
       min_age |-> NoneInt, max_age |-> NoneInt, min_income |-> NoneInt,
       max_income |-> NoneInt, occupation |-> None] }

WithRowId(row, id) ==
    [f \in DOMAIN row \cup {"id"} |-> IF f = "id" THEN id ELSE row[f]]

ExtractCatalogs ==
    { <<WithRowId(a, 1), WithRowId(b, 2)>> : a \in ExtractRows, b \in ExtractRows }

\* what the AI may answer for a key, when it answers it: null, a number, a
\* numeric string, a string that is no number, a list
AiAnswers ==
    [min_age |-> {JsonNull, JsonInt(21), JsonStr(<<" ","2","1">>), JsonStr(<<"N","/","A">>)},
     max_age |-> {JsonList},
     min_income |-> {JsonNull},
     max_income |-> {JsonStr(<<"3"," ","l","a","k","h">>)},
     occupation |-> {JsonStr(<<" ","F","a","r","m","e","r">>)}]

AiResults ==
    UNION { { r \in [keys -> UNION { AiAnswers[k] : k \in keys }] :
                \A k \in keys : r[k] \in AiAnswers[k] } :
            keys \in SUBSET DOMAIN AiAnswers }

NoResult == [k \in {} |-> JsonNull]

\* the schemes the batch query selects, in id order, at most n of them
RECURSIVE FirstWithoutAges(_, _, _)
FirstWithoutAges(rows, from, n) ==
    IF n <= 0 \/ from > Len(rows) THEN <<>>
    ELSE IF rows[from].min_age = NoneInt /\ rows[from].max_age = NoneInt
         THEN <<from>> \o FirstWithoutAges(rows, from + 1, n - 1)
         ELSE FirstWithoutAges(rows, from + 1, n)

InitExtract ==
    /\ profile = None
    /\ scheme = None
    /\ verdict = None
    /\ pc = "extracting"
    /\ catalog \in ExtractCatalogs
    /\ autoflush = FALSE
    /\ clock = 0
    /\ request = [scheme_id |-> 0, result |-> NoResult, rest |-> <<>>]
    /\ runs = <<>>
    /\ sessions = <<>>
    /\ checks = <<>>
    /\ requests_per_ip = <<>>
    /\ calls = <<>>
    /\ original = None

\* POST /extract-eligibility/{scheme_id}: the scheme exists, has a text and
\* the AI returned a non-empty dict (404, 400 and 500 otherwise)
ai_extract_eligibility_for_scheme(scheme_id, result) ==
    /\ pc = "extracting"
    /\ request.rest = <<>>
    /\ scheme_id \in DOMAIN catalog
    /\ ~Falsy(DescriptionText(catalog[scheme_id]))
    /\ result # NoResult
    /\ catalog' = [catalog EXCEPT ![scheme_id] = ApplyResult(@, result)]
    /\ request' = [scheme_id |-> scheme_id, result |-> result, rest |-> <<>>]
    /\ UNCHANGED <<profile, scheme, verdict, pc, autoflush, clock, runs,
                   sessions, checks, requests_per_ip, calls, original>>

\* POST /extract-eligibility-batch: the query for the schemes without ages
ai_extract_eligibility_batch(limit) ==
    /\ pc = "extracting"
    /\ request.rest = <<>>
    /\ LET schemes == FirstWithoutAges(catalog, 1,
                          IF limit < LimitCap THEN limit ELSE LimitCap)
       IN  /\ schemes # <<>>
           /\ request' = [scheme_id |-> 0, result |-> NoResult, rest |-> schemes]
    /\ UNCHANGED <<profile, scheme, verdict, pc, catalog, autoflush, clock,
                   runs, sessions, checks, requests_per_ip, calls, original>>

\* one turn of the batch loop: skipped without a text, an error when the AI
\* returned nothing, updated and committed otherwise
BatchNext(result) ==
    /\ pc = "extracting"
    /\ request.rest # <<>>
    /\ LET scheme_id == Head(request.rest)
           skipped == Falsy(DescriptionText(catalog[scheme_id]))
       IN  /\ skipped => result = NoResult
           /\ catalog' = IF skipped \/ result = NoResult THEN catalog
                         ELSE [catalog EXCEPT ![scheme_id] = ApplyResult(@, result)]
           /\ request' = [scheme_id |-> scheme_id, result |-> result,
                          rest |-> Tail(request.rest)]
    /\ UNCHANGED <<profile, scheme, verdict, pc, autoflush, clock, runs,
                   sessions, checks, requests_per_ip, calls, original>>

NextExtract ==
    \/ \E scheme_id \in 1..2, result \in AiResults :
          ai_extract_eligibility_for_scheme(scheme_id, result)
    \/ \E limit \in 1..MaxLimit : ai_extract_eligibility_batch(limit)
    \/ \E result \in AiResults : BatchNext(result)

SpecExtract == InitExtract /\ [][NextExtract]_vars

----------------------------------------------------------------------------
(* The documented predicates, stated apart from the code *)

AnyWord == <<"a","n","y">>
CentralWord == <<"c","e","n","t","r","a","l">>

\* the accepted set of a scheme caste: its "/"-separated tokens, trimmed and
\* lowercased
AcceptedCastes(caste) ==
    LET parts == Split(caste, "/")
    IN  { Lower(Strip(parts[i])) : i \in 1..Len(parts) }

\* predicate k of the documented order holds of profile p and scheme s
Passes(k, p, s) ==
    CASE k = 1 -> Lower(s.state) = CentralWord \/ Lower(s.state) = Lower(p.state)
      [] k = 2 -> s.min_age = NoneInt \/ p.age >= s.min_age
      [] k = 3 -> s.max_age = NoneInt \/ p.age <= s.max_age
      [] k = 4 -> s.min_income = NoneInt
                  \/ (p.annual_income # NoneInt /\ p.annual_income >= s.min_income)
      [] k = 5 -> s.max_income = NoneInt
                  \/ (p.annual_income # NoneInt /\ p.annual_income <= s.max_income)
      [] k = 6 -> s.occupation = None
                  \/ (p.occupation # None /\ Lower(p.occupation) = Lower(s.occupation))
      [] k = 7 -> s.gender = None \/ Lower(s.gender) = AnyWord
                  \/ (p.gender # None /\ Lower(p.gender) = Lower(s.gender))
      [] k = 8 -> s.caste = None \/ Lower(s.caste) = AnyWord
                  \/ (p.caste # None /\ Lower(p.caste) \in AcceptedCastes(s.caste))
      [] k = 9 -> s.disability = None \/ Lower(s.disability) = AnyWord
                  \/ (p.disability # None /\ Lower(p.disability) = Lower(s.disability))

Predicates == 1..9

Failing(p, s) == { k \in Predicates : ~Passes(k, p, s) }

\* text r reads as a message of predicate k (the two income predicates share
\* the message that asks for the income)
ReasonOf(k, r) ==
    LET first == r[1]
        last  == r[Len(r)]
    IN  CASE k = 1 -> first = "This scheme is only for " /\ last = " residents."
          [] k = 2 -> first = "Age must be at least "
          [] k = 3 -> first = "Age must not exceed "
          [] k = 4 -> \/ first = "Income information is required for this scheme."
                      \/ first = "Annual income must be at least Rs"
          [] k = 5 -> \/ first = "Income information is required for this scheme."
                      \/ first = "Annual income must not exceed Rs"
          [] k = 6 -> \/ first = "This scheme requires occupation to be specified as '"
                      \/ (first = "This scheme is only for " /\ last = "s.")
          [] k = 7 -> \/ first = "This scheme requires gender to be specified."
                      \/ (first = "This scheme is only for " /\ last = " applicants.")
          [] k = 8 -> \/ first = "This scheme requires caste category to be specified."
                      \/ (first = "This scheme is only for " /\ last = " category.")
          [] k = 9 -> \/ first = "This scheme requires disability status to be specified."
                      \/ first = "This scheme is only for persons with disabilities."
                      \/ first = "This scheme is not available for persons with disabilities."

\* the verdict carries a message of predicate k
HasReasonOf(k) ==
    \E i \in 1..Len(verdict.reasons) : ReasonOf(k, verdict.reasons[i])

MaxAge == 120

\* a profile that passed the validation of UserProfileCreate
ValidProfile(p) ==
    /\ p.state # None /\ p.state # <<>>
    /\ p.age \in 0..MaxAge
    /\ p.annual_income = NoneInt \/ p.annual_income >= 0

\* a Scheme row: state is NOT NULL and not empty, bounds are not negative
ValidScheme(s) ==
    /\ s.state # None /\ s.state # <<>>
    /\ \A b \in {s.min_age, s.max_age, s.min_income, s.max_income} :
          b = NoneInt \/ b >= 0

ScenarioProfile ==
    [state |-> Karnataka, age |-> 20, annual_income |-> 300000,
     occupation |-> <<"s","t","u","d","e","n","t">>, gender |-> None, caste |-> None,
     disability |-> None]

ScenarioScheme ==
    [state |-> <<"C","e","n","t","r","a","l">>, min_age |-> 18, max_age |-> 35,
     min_income |-> NoneInt, max_income |-> 800000,
     occupation |-> <<"s","t","u","d","e","n","t">>, gender |-> None, caste |-> None,
     disability |-> None]

----------------------------------------------------------------------------
(* Claims about check_eligibility, checked under SpecEligibility *)

\* C1: the verdict returned by check_eligibility has eligible = true if and
\* only if its reasons list is empty.
C1_EligibleIffNoReasons ==
    pc = "done" => (verdict.eligible <=> verdict.reasons = <<>>)

\* a verdict that is not eligible and carries several reasons
C1_Witness ==
    pc = "done" /\ ~verdict.eligible /\ Len(verdict.reasons) >= 3

\* C2: eligible is true exactly when all nine documented predicates pass, and
\* the documented Karnataka student is eligible for the Central student scheme
\* with no reasons.
C2_EligibleIffAllPass ==
    pc = "done" =>
        /\ verdict.eligible <=> (\A k \in Predicates : Passes(k, profile, scheme))
        /\ (profile = ScenarioProfile /\ scheme = ScenarioScheme)
              => (verdict.eligible /\ verdict.reasons = <<>>)

\* the documented scenario has been evaluated
C2_Witness ==
    pc = "done" /\ profile = ScenarioProfile /\ scheme = ScenarioScheme
    /\ verdict.eligible

\* C3: no short circuit: the number of reasons is the number of failing
\* predicates, one reason each.
C3_OneReasonPerFailure ==
    pc = "done" =>
        Len(verdict.reasons) = Cardinality(Failing(profile, scheme))

\* a profile without income against a scheme with both income bounds gets the
\* income message twice
C3_Witness ==
    /\ pc = "done"
    /\ profile.annual_income = NoneInt
    /\ scheme.min_income # NoneInt /\ scheme.max_income # NoneInt
    /\ Cardinality({ i \in 1..Len(verdict.reasons) :
           verdict.reasons[i] =
               <<"Income information is required for this scheme.">> }) = 2

\* C4: the reasons follow the fixed predicate order: when predicates i < j
\* both fail, a reason of i stands before a reason of j.
C4_ReasonsInPredicateOrder ==
    pc = "done" =>
        \A i, j \in Failing(profile, scheme) :
            i < j =>
                \E a, b \in 1..Len(verdict.reasons) :
                    /\ a < b
                    /\ ReasonOf(i, verdict.reasons[a])
                    /\ ReasonOf(j, verdict.reasons[b])

\* every predicate but one of the two age bounds fails at once
C4_Witness ==
    pc = "done" /\ Cardinality(Failing(profile, scheme)) >= 8

\* C5: a scheme whose state is "Central" in any letter case never gets the
\* state-mismatch reason.
C5_CentralNeverMismatches ==
    (pc = "done" /\ Lower(scheme.state) = CentralWord) => ~HasReasonOf(1)

\* an upper-case CENTRAL scheme evaluated for a Maharashtra profile
C5_Witness ==
    /\ pc = "done"
    /\ scheme.state = <<"C","E","N","T","R","A","L">>
    /\ Lower(profile.state) = Lower(Maharashtra)
    /\ ~HasReasonOf(1)

\* C6: a scheme gender, caste or disability of "any" in any letter case gives
\* no reason for that predicate, whatever the profile field, absent included.
C6_AnyIsWildcard ==
    pc = "done" =>
        /\ (scheme.gender # None /\ Lower(scheme.gender) = AnyWord)
              => ~HasReasonOf(7)
        /\ (scheme.caste # None /\ Lower(scheme.caste) = AnyWord)
              => ~HasReasonOf(8)
        /\ (scheme.disability # None /\ Lower(scheme.disability) = AnyWord)
              => ~HasReasonOf(9)

\* the three wildcards in mixed case against absent profile fields
C6_Witness ==
    /\ pc = "done"
    /\ scheme.gender = <<"A","n","y">> /\ scheme.caste = <<"A","N","Y">> /\ scheme.disability = <<"a","n","y">>
    /\ profile.gender = None /\ profile.caste = None /\ profile.disability = None
    /\ ~HasReasonOf(7) /\ ~HasReasonOf(8) /\ ~HasReasonOf(9)

\* C7: for a scheme caste that is set and not "any", the caste predicate
\* passes iff the profile caste is present and its lowercased value is one of
\* the trimmed, lowercased "/"-separated tokens; SC/ST/OBC accepts st and
\* rejects general.
C7_CasteSet ==
    (pc = "done" /\ scheme.caste # None /\ Lower(scheme.caste) # AnyWord) =>
        /\ ~HasReasonOf(8) <=>
              (profile.caste # None
               /\ Lower(profile.caste) \in AcceptedCastes(scheme.caste))
        /\ (scheme.caste = <<"S","C","/","S","T","/","O","B","C">> /\ profile.caste = <<"s","t">>)
              => ~HasReasonOf(8)
        /\ (scheme.caste = <<"S","C","/","S","T","/","O","B","C">> /\ profile.caste = <<"g","e","n","e","r","a","l">>)
              => HasReasonOf(8)

\* a token that needs trimming accepts an upper-case profile caste
C7_Witness ==
    /\ pc = "done"
    /\ scheme.caste = <<"s","c"," ","/"," ","S","t"," ">>
    /\ profile.caste = <<"S","T">>
    /\ ~HasReasonOf(8)

\* C8: for every valid pair check_eligibility returns one verdict and never
\* raises.
C8_Total ==
    (ValidProfile(profile) /\ ValidScheme(scheme)) =>
        /\ pc # "raised"
        /\ pc = "done" =>
              /\ verdict.eligible \in BOOLEAN
              /\ verdict.score \in {0, 1}
              /\ \A i \in 1..Len(verdict.reasons) :
                    \E k \in Predicates : ReasonOf(k, verdict.reasons[i])

\* every optional profile field absent, every scheme constraint set
C8_Witness ==
    /\ pc = "done"
    /\ ValidProfile(profile) /\ ValidScheme(scheme)
    /\ profile.annual_income = NoneInt /\ profile.occupation = None
    /\ profile.gender = None /\ profile.caste = None
    /\ profile.disability = None
    /\ scheme.min_income # NoneInt /\ scheme.max_income # NoneInt
    /\ scheme.occupation # None
    /\ scheme.gender = <<"F","e","m","a","l","e">> /\ scheme.caste = <<"S","C","/","S","T","/","O","B","C">>
    /\ scheme.disability = <<"Y","e","s">>

----------------------------------------------------------------------------
(* Claims about upsert_schemes_from_source, checked under SpecResync *)

\* the records of a batch that carry a non-empty source_scheme_id
Keyed(items) ==
    { i \in 1..Len(items) : ~Falsy(GetOrNone(items[i], "source_scheme_id")) }

\* no source_scheme_id is carried by two records of the batch
DistinctIds(items) ==
    \A i, j \in Keyed(items) :
        items[i]["source_scheme_id"] = items[j]["source_scheme_id"] => i = j

\* every keyed record carries the columns the table requires
Complete(items) ==
    \A i \in Keyed(items) :
        \A c \in NotNullColumns : GetOrNone(items[i], c) # None

\* C9: merging one batch twice with one source against an empty catalog
\* returns {inserted: N, updated: 0} and then {inserted: 0, updated: N}, N the
\* number of records with a non-empty source_scheme_id, for every batch.
C9_CountsForEveryBatch ==
    (runs # <<>> /\ runs[1].before = <<>>) =>
        LET n == Cardinality(Keyed(request.items))
        IN  /\ runs[1].outcome = "ok"
            /\ runs[1].inserted = n /\ runs[1].updated = 0
            /\ Len(runs) >= 2 =>
                  /\ runs[2].outcome = "ok"
                  /\ runs[2].inserted = 0 /\ runs[2].updated = n

\* rows r1 and r2 agree in every column but last_synced_at
SameButSynced(r1, r2) ==
    [r1 EXCEPT !.last_synced_at = NoneInt] = [r2 EXCEPT !.last_synced_at = NoneInt]

\* C10 as stated: the stored records after the second run are field for field
\* those after the first run.
C10_FieldForFieldIdentical ==
    \A k \in 1..Len(runs) - 1 : runs[k + 1].after = runs[k].after

\* C10 as amended: for a batch that carries no source_scheme_id twice, the
\* rows after the second run are the rows after the first run, equal in every
\* column but last_synced_at.
C10_IdenticalButLastSynced ==
    DistinctIds(request.items) =>
        \A k \in 1..Len(runs) - 1 :
            /\ Len(runs[k + 1].after) = Len(runs[k].after)
            /\ \A i \in 1..Len(runs[k].after) :
                  SameButSynced(runs[k + 1].after[i], runs[k].after[i])

\* a second run at a later time that refreshed last_synced_at of a row the
\* first run inserted and changed nothing else
C10_Witness ==
    /\ Len(runs) >= 2
    /\ DistinctIds(request.items)
    /\ runs[1].outcome = "ok" /\ runs[1].inserted >= 1
    /\ runs[2].outcome = "ok" /\ runs[2].updated >= 1
    /\ \E i \in 1..Len(runs[2].after) :
          /\ runs[2].after[i].last_synced_at > runs[1].after[i].last_synced_at
          /\ SameButSynced(runs[2].after[i], runs[1].after[i])

----------------------------------------------------------------------------
(* The catalog after syncs *)

\* two rows are rows of one ingested scheme
SameKey(r1, r2) ==
    /\ r1.source # None
    /\ r1.source = r2.source
    /\ r1.source_scheme_id = r2.source_scheme_id

\* C11: after any sequence of merges the catalog holds at most one row for
\* each (source, source_scheme_id) pair, so the lookup by the pair of a row
\* finds the row with that row's id.
C11_OneRowPerKey ==
    \A i \in 1..Len(catalog) :
        catalog[i].source # None =>
            /\ \A j \in 1..Len(catalog) : SameKey(catalog[i], catalog[j]) => i = j
            /\ FindExisting(catalog, catalog[i].source, catalog[i].source_scheme_id)
                   = catalog[i].id

----------------------------------------------------------------------------
(* What one merge does to the rows it finds *)

\* the columns an update writes from the record
MutableFields ==
    { "name", "state", "category", "short_description", "full_description",
      "min_age", "max_age", "min_income", "max_income", "occupation",
      "official_link", "application_process" }

\* the records of the batch that carry this external id
Carrying(items, sid) ==
    { n \in 1..Len(items) : GetOrNone(items[n], "source_scheme_id") = sid }

\* the last record of the batch that carries the external id and the key, 0
\* when no such record does
LastWith(items, sid, key) ==
    LET with == { n \in Carrying(items, sid) : key \in DOMAIN items[n] }
    IN  IF with = {} THEN 0 ELSE CHOOSE n \in with : \A m \in with : m <= n

\* the rows of the catalog before the run that the batch of the request
\* updates: the first row of each (source, source_scheme_id) the batch carries
Updated(run) ==
    { i \in 1..Len(run.before) :
        /\ run.before[i].source = request.source
        /\ ~Falsy(run.before[i].source_scheme_id)
        /\ Carrying(request.items, run.before[i].source_scheme_id) # {}
        /\ FindExisting(run.before, request.source, run.before[i].source_scheme_id) = i }

\* C12: when a merge updates an existing row, every mutable field whose key
\* the incoming record does not carry keeps its stored value, and every
\* mutable field whose key it carries holds the incoming value.
C12_PartialUpdate ==
    \A k \in 1..Len(runs) :
        runs[k].outcome = "ok" =>
            \A i \in Updated(runs[k]) : \A f \in MutableFields :
                LET n == LastWith(request.items, runs[k].before[i].source_scheme_id, f)
                IN  runs[k].after[i][f] =
                        IF n = 0 THEN runs[k].before[i][f] ELSE request.items[n][f]

\* RecordA2 has been merged into the row RecordA made: min_age, which
\* RecordA2 does not carry, is still 18, and name and category are the ones
\* of RecordA2
C12_Witness ==
    /\ Len(runs) >= 1
    /\ runs[1].outcome = "ok"
    /\ request.items = <<RecordA2>>
    /\ 2 \in Updated(runs[1])
    /\ runs[1].before[2].min_age = 18
    /\ runs[1].before[2].category = <<"s","t","u","d","e","n","t">>
    /\ runs[1].after[2].min_age = 18
    /\ runs[1].after[2].name = <<"V","i","d","y","a","2">>
    /\ runs[1].after[2].category = None

\* the record carries a source_scheme_id that is neither null nor empty
HasId(item) ==
    /\ "source_scheme_id" \in DOMAIN item
    /\ item["source_scheme_id"] # None
    /\ item["source_scheme_id"] # <<>>

\* the batch without the records that carry no source_scheme_id
WithId(items) == SelectSeq(items, HasId)

\* C13: a record whose source_scheme_id is missing or empty is skipped: the
\* run ends as the run of the batch without such records does, with the same
\* outcome, the same rows and the same inserted and updated counts.
C13_SkipsRecordsWithoutId ==
    \A k \in 1..Len(runs) :
        runs[k] = upsert_schemes_from_source(runs[k].before, WithId(request.items),
                                             request.source, runs[k].at, autoflush)

\* a batch of a record with an empty id and then RecordB has been merged:
\* RecordB was inserted and is the only new row
C13_Witness ==
    /\ Len(runs) >= 1
    /\ request.items = <<RecordEmptyId, RecordB>>
    /\ runs[1].outcome = "ok"
    /\ runs[1].inserted = 1
    /\ runs[1].updated = 0
    /\ Len(runs[1].after) = Len(runs[1].before) + 1
    /\ runs[1].after[Len(runs[1].after)].source_scheme_id = IdB

\* the batch holds a record with an id and no name whose (source, id) is
\* neither stored nor carried by a record before it in the batch
LacksNameOfNewRow(run) ==
    \E n \in 1..Len(request.items) :
        /\ HasId(request.items[n])
        /\ "name" \notin DOMAIN request.items[n]
        /\ FindExisting(run.before, request.source,
                        request.items[n]["source_scheme_id"]) = 0
        /\ \A m \in 1..(n - 1) :
               GetOrNone(request.items[m], "source_scheme_id")
                   # request.items[n]["source_scheme_id"]

\* C14: a merge that fails part-way (a record of a row not yet stored lacks
\* the name, or the commit is rejected) fails for the caller and leaves the
\* committed catalog as it was before the merge.
C14_FailedMergeChangesNothing ==
    \A k \in 1..Len(runs) :
        /\ LacksNameOfNewRow(runs[k]) => runs[k].outcome = "error"
        /\ runs[k].outcome = "error" =>
               /\ runs[k].after = runs[k].before
               /\ k = Len(runs) => catalog = runs[k].before

\* RecordA2 updated the stored row of RecordA and then the record without a
\* name failed the merge: the stored row still has the name RecordA gave it
C14_Witness ==
    /\ Len(runs) >= 1
    /\ request.items = <<RecordA2, RecordNoName>>
    /\ request.source = MyScheme
    /\ Len(runs[1].before) = 2
    /\ runs[1].outcome = "error"
    /\ Len(catalog) = 2
    /\ catalog[2].name = <<"V","i","d","y","a">>

----------------------------------------------------------------------------
(* Requests at the same time *)

\* both requests have ended
AllEnded == \A p \in Requests : sessions[p].state \in {"committed", "failed"}

\* the committed rows after request p and then request q, one after the other
Serial(p, q) ==
    LET first == upsert_schemes_from_source(sessions[p].start, sessions[p].items,
                                            sessions[p].source, clock, autoflush)
    IN  upsert_schemes_from_source(first.after, sessions[q].items,
                                   sessions[q].source, clock, autoflush).after

\* C15: two merges that carry the same (source, source_scheme_id) and run at
\* the same time end as if they had run one after the other: the catalog has
\* one row for the key and is the catalog of one of the two serial orders.
C15_Serialized ==
    (pc = "requests" /\ AllEnded) =>
        /\ \A i, j \in 1..Len(catalog) : SameKey(catalog[i], catalog[j]) => i = j
        /\ catalog \in { Serial(1, 2), Serial(2, 1) }

----------------------------------------------------------------------------
(* The catalog through a sequence of syncs *)

\* the row is still in the catalog, at its place, with its id and its key
StillThere(row, n) ==
    /\ n <= Len(catalog)
    /\ catalog[n].id = row.id
    /\ catalog[n].source = row.source
    /\ catalog[n].source_scheme_id = row.source_scheme_id

\* C16: no merge deletes a row: after any sequence of merges every row that
\* was in the catalog before one of them is still there with the same id,
\* source and source_scheme_id, and the row count has never decreased.
C16_NoRowDeleted ==
    \A k \in 1..Len(runs) :
        /\ Len(runs[k].before) <= Len(runs[k].after)
        /\ Len(runs[k].after) <= Len(catalog)
        /\ \A n \in 1..Len(runs[k].before) : StillThere(runs[k].before[n], n)
        /\ \A n \in 1..Len(runs[k].after) : StillThere(runs[k].after[n], n)

\* RecordA was inserted from myscheme by the first sync, the second sync of
\* myscheme carried RecordB only, and the row of RecordA is still there
C16_Witness ==
    /\ Len(runs) = 2
    /\ runs[1].outcome = "ok"
    /\ runs[1].inserted = 1
    /\ runs[2].outcome = "ok"
    /\ runs[2].inserted = 1
    /\ request = [items |-> <<RecordB>>, source |-> MyScheme]
    /\ \E n \in 1..Len(catalog) :
          /\ catalog[n].source = MyScheme
          /\ catalog[n].source_scheme_id = IdA
          /\ n <= Len(runs[2].before)
          /\ runs[2].before[n].source = MyScheme

\* C17: in every catalog reached by merges from a catalog where it holds,
\* every row has a non-empty name and a non-empty state.
C17_NameAndStateNeverEmpty ==
    \A n \in 1..Len(catalog) :
        /\ catalog[n].name # None /\ catalog[n].name # <<>>
        /\ catalog[n].state # None /\ catalog[n].state # <<>>

----------------------------------------------------------------------------
(* The counts a merge returns *)

\* the records of the batch that find a row when they are merged: a row of
\* the catalog before the merge or, when the Session flushes before its
\* queries, the row an earlier record of the batch made
FindingARow(run) ==
    { n \in 1..Len(request.items) :
        /\ HasId(request.items[n])
        /\ \/ FindExisting(run.before, request.source,
                           request.items[n]["source_scheme_id"]) # 0
           \/ /\ autoflush
              /\ \E m \in 1..(n - 1) :
                    GetOrNone(request.items[m], "source_scheme_id")
                        = request.items[n]["source_scheme_id"] }

\* how many rows carry the key
RowsOf(rows, source, sid) ==
    Cardinality({ i \in 1..Len(rows) :
                    rows[i].source = source /\ rows[i].source_scheme_id = sid })

\* C18: for a merge that completes, inserted is the number of rows the merge
\* added, updated is the number of records whose (source, source_scheme_id)
\* matched an existing row, which gets last_synced_at set to the time of the
\* merge and no new row, and inserted + updated is the number of records with
\* a non-empty source_scheme_id.
C18_CountsOfACompletedMerge ==
    \A k \in 1..Len(runs) :
        runs[k].outcome = "ok" =>
            /\ runs[k].inserted = Len(runs[k].after) - Len(runs[k].before)
            /\ runs[k].updated = Cardinality(FindingARow(runs[k]))
            /\ runs[k].inserted + runs[k].updated = Len(WithId(request.items))
            /\ \A i \in Updated(runs[k]) :
                  /\ runs[k].after[i].last_synced_at = runs[k].at
                  /\ RowsOf(runs[k].after, request.source,
                            runs[k].before[i].source_scheme_id)
                       = RowsOf(runs[k].before, request.source,
                                runs[k].before[i].source_scheme_id)

\* at a time after 0 a batch of RecordA2 and RecordB was merged into the
\* catalog that held RecordA: one row inserted, one updated and stamped
C18_Witness ==
    /\ Len(runs) >= 1
    /\ request = [items |-> <<RecordA2, RecordB>>, source |-> MyScheme]
    /\ runs[1].outcome = "ok"
    /\ runs[1].at > 0
    /\ runs[1].inserted = 1
    /\ runs[1].updated = 1
    /\ runs[1].before[2].last_synced_at = 0
    /\ runs[1].after[2].last_synced_at = runs[1].at
    /\ Len(runs[1].after) = 3

----------------------------------------------------------------------------
(* The verdict of check_eligibility, continued *)

\* C19: the score of the verdict is 1.0 when eligible is true and 0.0 when
\* eligible is false, and no other value.
C19_ScoreIsBinary ==
    pc = "done" =>
        /\ verdict.score \in {0, 1}
        /\ verdict.eligible <=> verdict.score = 1
        /\ ~verdict.eligible <=> verdict.score = 0

\* an ineligible verdict with three reasons has been returned with score 0
C19_Witness ==
    /\ pc = "done"
    /\ ~verdict.eligible
    /\ Len(verdict.reasons) = 3
    /\ verdict.score = 0

\* the scheme asks for the profile's income, occupation, gender, caste or
\* disability status (predicate k) and the profile does not give it
AsksForAbsent(k, p, s) ==
    CASE k = 4 -> s.min_income # NoneInt /\ p.annual_income = NoneInt
      [] k = 5 -> s.max_income # NoneInt /\ p.annual_income = NoneInt
      [] k = 6 -> s.occupation # None /\ p.occupation = None
      [] k = 7 -> s.gender # None /\ Lower(s.gender) # AnyWord /\ p.gender = None
      [] k = 8 -> s.caste # None /\ Lower(s.caste) # AnyWord /\ p.caste = None
      [] k = 9 -> s.disability # None /\ Lower(s.disability) # AnyWord
                  /\ p.disability = None

\* the message of predicate k that says the information is required
Required(k, s) ==
    CASE k \in {4, 5} -> <<"Income information is required for this scheme.">>
      [] k = 6 -> <<"This scheme requires occupation to be specified as '">>
                    \o s.occupation \o <<"'.">>
      [] k = 7 -> <<"This scheme requires gender to be specified.">>
      [] k = 8 -> <<"This scheme requires caste category to be specified.">>
      [] k = 9 -> <<"This scheme requires disability status to be specified.">>

\* how many times the verdict carries the message
Times(text) ==
    Cardinality({ i \in 1..Len(verdict.reasons) : verdict.reasons[i] = text })

\* C20: when the scheme sets an income bound, an occupation, or a gender,
\* caste or disability other than "any" and the profile lacks the field,
\* check_eligibility does not raise and returns eligible = false with the
\* reason of that predicate saying the information is required.
C20_AbsentFieldIsAReason ==
    /\ pc # "raised"
    /\ pc = "done" =>
          \A k \in 4..9 :
              AsksForAbsent(k, profile, scheme) =>
                  /\ ~verdict.eligible
                  /\ Times(Required(k, scheme)) >=
                        Cardinality({ j \in 4..9 :
                            /\ AsksForAbsent(j, profile, scheme)
                            /\ Required(j, scheme) = Required(k, scheme) })

\* a profile with none of the optional fields against a scheme that sets
\* all of them: the verdict carries the six required-information reasons
C20_Witness ==
    /\ pc = "done"
    /\ \A k \in 4..9 : AsksForAbsent(k, profile, scheme)
    /\ ~verdict.eligible
    /\ Times(Required(4, scheme)) = 2
    /\ \A k \in 6..9 : Times(Required(k, scheme)) = 1

----------------------------------------------------------------------------
(* The eligibility-check endpoint *)

Ids(dicts) == { dicts[n].id : n \in 1..Len(dicts) }

\* C22: the endpoint evaluates each loaded scheme exactly once and puts it on
\* exactly one of eligible_schemes and ineligible_schemes, on eligible_schemes
\* exactly when its verdict is eligible; the sizes of the two lists sum to
\* the number of schemes checked.
C22_Partition ==
    \A r \in DOMAIN checks :
        LET c == checks[r]
        IN  /\ Len(c.evaluated) = c.next - 1
            /\ \A n \in 1..Len(c.evaluated) : c.evaluated[n].id = c.schemes[n].id
            /\ c.step = "returned" => Len(c.evaluated) = Len(c.schemes)
            /\ Len(c.eligible_schemes) + Len(c.ineligible_schemes) = Len(c.evaluated)
            /\ Cardinality(Ids(c.eligible_schemes)) = Len(c.eligible_schemes)
            /\ Cardinality(Ids(c.ineligible_schemes)) = Len(c.ineligible_schemes)
            /\ Ids(c.eligible_schemes) \cap Ids(c.ineligible_schemes) = {}
            /\ \A n \in 1..Len(c.evaluated) :
                  /\ c.evaluated[n].id \in
                         Ids(c.eligible_schemes) \cup Ids(c.ineligible_schemes)
                  /\ c.evaluated[n].id \in Ids(c.eligible_schemes)
                         <=> c.evaluated[n].result.eligible

\* a request has returned two loaded schemes, one on each list
C22_Witness ==
    /\ pc = "serving"
    /\ checks[1].step = "returned"
    /\ Len(checks[1].schemes) = 2
    /\ Len(checks[1].eligible_schemes) = 1
    /\ Len(checks[1].ineligible_schemes) = 1

\* C27: the eligible_schemes of the response are exactly the schemes of the
\* catalog for which check_eligibility returns eligible for the profile, also
\* those whose state matches the profile's state in another letter case.
C27_EligibleListIsComplete ==
    \A r \in DOMAIN checks :
        checks[r].step = "returned" =>
            Ids(checks[r].eligible_schemes) =
                { catalog[n].id : n \in
                    { m \in 1..Len(catalog) :
                        check_eligibility(checks[r].profile, catalog[m]).eligible } }

----------------------------------------------------------------------------
(* The messages of the state, age, income and disability predicates *)

\* C23: when the scheme's state is not "central" and differs from the
\* profile's state whatever the letter case, the verdict is ineligible and
\* its first reason is the state message naming the scheme's state; when the
\* two states differ in letter case only, there is no state message.
C23_StateMismatchComesFirst ==
    pc = "done" =>
        IF /\ Lower(scheme.state) # CentralWord
           /\ Lower(scheme.state) # Lower(profile.state)
        THEN /\ ~verdict.eligible
             /\ verdict.reasons[1] =
                    <<"This scheme is only for ">> \o scheme.state
                        \o <<" residents.">>
             /\ \A n \in 2..Len(verdict.reasons) : ~ReasonOf(1, verdict.reasons[n])
        ELSE ~HasReasonOf(1)

\* a profile from Karnataka got the state message of a Maharashtra scheme
\* first, followed by other reasons
C23_Witness ==
    /\ pc = "done"
    /\ profile.state = Karnataka
    /\ scheme.state = Maharashtra
    /\ Len(verdict.reasons) >= 2
    /\ verdict.reasons[1] =
           <<"This scheme is only for ">> \o Maharashtra \o <<" residents.">>

\* the verdict carries a message that begins with the text
HasReasonFrom(text) ==
    \E n \in 1..Len(verdict.reasons) : verdict.reasons[n][1] = text

\* C24: the age and income bounds are inclusive: an age or income equal to a
\* bound passes, only a value below a minimum or above a maximum fails.
C24_BoundsAreInclusive ==
    pc = "done" =>
        /\ HasReasonFrom("Age must be at least ")
               <=> (scheme.min_age # NoneInt /\ profile.age < scheme.min_age)
        /\ HasReasonFrom("Age must not exceed ")
               <=> (scheme.max_age # NoneInt /\ profile.age > scheme.max_age)
        /\ HasReasonFrom("Annual income must be at least Rs")
               <=> (/\ scheme.min_income # NoneInt
                    /\ profile.annual_income # NoneInt
                    /\ profile.annual_income < scheme.min_income)
        /\ HasReasonFrom("Annual income must not exceed Rs")
               <=> (/\ scheme.max_income # NoneInt
                    /\ profile.annual_income # NoneInt
                    /\ profile.annual_income > scheme.max_income)

\* a profile whose age is the minimum age of the scheme, with an income under
\* the maximum income, is eligible
C24_Witness ==
    /\ pc = "done"
    /\ scheme.min_age # NoneInt
    /\ profile.age = scheme.min_age
    /\ scheme.max_income # NoneInt
    /\ profile.annual_income < scheme.max_income
    /\ verdict.eligible

\* C25: a disability mismatch says the scheme is only for persons with
\* disabilities when the scheme's disability is "yes" in any letter case and
\* says it is not available for them otherwise; an absent disability status
\* of the profile says the status is required.
C25_DisabilityMessages ==
    pc = "done" =>
        LET only == Times(<<"This scheme is only for persons with disabilities.">>)
            never == Times(<<"This scheme is not available for persons with disabilities.">>)
            needs == Times(<<"This scheme requires disability status to be specified.">>)
            asked == scheme.disability # None /\ Lower(scheme.disability) # AnyWord
        IN  IF asked /\ profile.disability = None
            THEN only = 0 /\ never = 0 /\ needs = 1
            ELSE IF asked /\ Lower(scheme.disability) # Lower(profile.disability)
            THEN IF Lower(scheme.disability) = <<"y","e","s">>
                 THEN only = 1 /\ never = 0 /\ needs = 0
                 ELSE only = 0 /\ never = 1 /\ needs = 0
            ELSE only = 0 /\ never = 0 /\ needs = 0

\* a scheme whose disability is stored as "Yes" has told a profile with "No"
\* that it is only for persons with disabilities
C25_Witness ==
    /\ pc = "done"
    /\ scheme.disability = <<"Y","e","s">>
    /\ profile.disability = <<"N","o">>
    /\ Times(<<"This scheme is only for persons with disabilities.">>) = 1

----------------------------------------------------------------------------
(* The rows a merge leaves alone *)

\* the row is a row of the source of the request with an external id that a
\* record of the batch carries
InBatch(row) ==
    /\ row.source = request.source
    /\ \E n \in 1..Len(request.items) :
          /\ HasId(request.items[n])
          /\ request.items[n]["source_scheme_id"] = row.source_scheme_id

\* the columns no update writes
KeptFields == { "id", "source", "source_scheme_id", "gender", "caste", "disability" }

\* C26: a merge for a source changes only rows of that source whose external
\* id a record of the batch carries: rows of another source, rows without
\* source and rows of the source with another id stay as they are, and an
\* updated row keeps its id, source, source_scheme_id, gender, caste and
\* disability.
C26_OnlyRowsOfTheBatchChange ==
    \A k \in 1..Len(runs) :
        \A n \in 1..Len(runs[k].before) :
            /\ n <= Len(runs[k].after)
            /\ ~InBatch(runs[k].before[n]) => runs[k].after[n] = runs[k].before[n]
            /\ \A f \in KeptFields : runs[k].after[n][f] = runs[k].before[n][f]

\* RecordA2 from data_gov has been merged twice into the catalog that holds
\* the seed row and the myscheme row of the same external id: the second run
\* updated the data_gov row and left the other two as they were
C26_Witness ==
    /\ Len(runs) = 2
    /\ request = [items |-> <<RecordA2>>, source |-> DataGov]
    /\ runs[2].outcome = "ok"
    /\ runs[2].updated = 1
    /\ Len(runs[2].before) = 3
    /\ runs[2].before[1].source = None
    /\ runs[2].before[2].source = MyScheme
    /\ runs[2].before[2].source_scheme_id = IdA
    /\ runs[2].after[1] = runs[2].before[1]
    /\ runs[2].after[2] = runs[2].before[2]
    /\ runs[2].after[3] # runs[2].before[3]

----------------------------------------------------------------------------
(* Relaxing a scheme *)

\* the predicates whose condition differs from the one of the original scheme
RelaxedPredicates ==
    { c[2] : c \in { d \in Relaxable : scheme[d[1]] # original.scheme[d[1]] } }

\* the n-th smallest element of a set of numbers
Nth(set, n) == CHOOSE x \in set : Cardinality({ y \in set : y <= x }) = n

\* the reasons of the original verdict without those of the relaxed
\* predicates: the n-th reason is the one of the n-th failing predicate
ReasonsLeft ==
    LET failing == Failing(profile, original.scheme)
        keep == { n \in 1..Len(original.verdict.reasons) :
                    Nth(failing, n) \notin RelaxedPredicates }
    IN  [n \in 1..Cardinality(keep) |-> original.verdict.reasons[Nth(keep, n)]]

\* C28: relaxing a scheme never removes eligibility: a profile eligible for a
\* scheme is eligible for every scheme obtained by unsetting any of its
\* conditions (or setting gender, caste or disability to "any"), and the
\* reasons for the relaxed scheme are the reasons for the original without
\* the reasons of the relaxed predicates.
C28_RelaxingKeepsEligibility ==
    /\ pc # "raised"
    /\ pc = "relaxing" =>
          /\ Len(original.verdict.reasons)
                 = Cardinality(Failing(profile, original.scheme))
          /\ original.verdict.eligible => verdict.eligible
          /\ verdict.reasons = ReasonsLeft
          /\ verdict.eligible <=> verdict.reasons = <<>>

\* a profile that failed three predicates of the original scheme is eligible
\* for the scheme with exactly those three conditions relaxed
C28_Witness ==
    /\ pc = "relaxing"
    /\ Len(original.verdict.reasons) = 3
    /\ Cardinality(RelaxedPredicates) = 3
    /\ scheme.caste = AnyWord
    /\ scheme.occupation # None
    /\ verdict.eligible

----------------------------------------------------------------------------
(* The rate limiter *)

\* the calls of the IP that returned True at a time from t up to, and not
\* including, t + WINDOW_SECONDS
AdmittedFrom(ip, t) ==
    { m \in 1..Len(calls[ip]) :
        /\ calls[ip][m].returned
        /\ t <= calls[ip][m].at
        /\ calls[ip][m].at < t + WINDOW_SECONDS }

\* the calls of the IP before its n-th call that returned True less than
\* WINDOW_SECONDS before it
AdmittedBefore(ip, n) ==
    { m \in 1..(n - 1) :
        /\ calls[ip][m].returned
        /\ calls[ip][n].at - calls[ip][m].at < WINDOW_SECONDS }

\* the times of those calls and of the n-th, when it returned True, in order
KeptAfter(ip, n) ==
    LET kept == AdmittedBefore(ip, n) \cup
                    (IF calls[ip][n].returned THEN {n} ELSE {})
    IN  [i \in 1..Cardinality(kept) |-> calls[ip][Nth(kept, i)].at]

\* C29: for each IP, at most MAX_REQUESTS calls that returned True fall in any
\* window of WINDOW_SECONDS seconds; a call that returns False records no
\* timestamp; the calls of one IP do not change what another IP is returned.
C29_AtMostTwentyPerWindow ==
    pc = "limiting" =>
        /\ DOMAIN requests_per_ip = { ip \in Ips : calls[ip] # <<>> }
        /\ \A ip \in Ips : \A n \in 1..Len(calls[ip]) :
              /\ Cardinality(AdmittedFrom(ip, calls[ip][n].at)) <= MAX_REQUESTS
              /\ calls[ip][n].returned
                     <=> Cardinality(AdmittedBefore(ip, n)) < MAX_REQUESTS
              /\ n = Len(calls[ip]) => requests_per_ip[ip] = KeptAfter(ip, n)

\* the flooding client was admitted twenty times at time 0, refused at time
\* 30 and admitted again at time 60, and the other client was admitted at
\* time 30
C29_Witness ==
    /\ pc = "limiting"
    /\ Len(calls[FloodingIp]) = 22
    /\ \A n \in 1..20 : calls[FloodingIp][n] = [at |-> 0, returned |-> TRUE]
    /\ calls[FloodingIp][21] = [at |-> 30, returned |-> FALSE]
    /\ calls[FloodingIp][22] = [at |-> 60, returned |-> TRUE]
    /\ calls[OtherIp] = <<[at |-> 30, returned |-> TRUE]>>
    /\ requests_per_ip[FloodingIp] = <<60>>

\* the AI result holds a value of the field that can be stored as an integer
Usable(result, field) == safe_int(ResultGet(result, field)) # NoneInt

\* C30: AI extraction changes min_age, max_age, min_income or max_income of
\* a scheme only when the AI result holds a usable value of that field, and
\* then stores that value as an integer; a field the result holds no usable
\* value of keeps its stored value, so it is never reset to unset
C30_UnusableValueKeepsTheField ==
    [][pc = "extracting" =>
          \A id \in DOMAIN catalog : \A field \in NumericFields :
              IF request'.scheme_id = id /\ Usable(request'.result, field)
              THEN catalog'[id][field] = safe_int(ResultGet(request'.result, field))
              ELSE catalog'[id][field] = catalog[id][field]]_vars

====
